---- MODULE Spec2Model ----
(***************************************************************************)
(* Model of the DXF export service (services/dxf-export): the export       *)
(* pipeline of DxfExportService.export_scene, the validation pass of       *)
(* DxfExportService.validate_scene, the pure helpers they use, and the two  *)
(* endpoints of api/export.py that call them (feature flag, entity limit,  *)
(* mapping of exceptions to HTTP errors).                                  *)
(*                                                                         *)
(* Conventions.  Python None is the string None.  A float is an integer    *)
(* counting tenths (2.5 is 25).  A JSON value of an entity's field bag is  *)
(* a tagged record: [t |-> "num", n], [t |-> "str", s], [t |-> "bool", b], *)
(* [t |-> "null"], [t |-> "dict", d] (d a function from keys to values)    *)
(* and [t |-> "list", items] (a sequence of values).  A helper that can    *)
(* raise returns [r |-> "ok", v], [r |-> "none"] (Python None) or          *)
(* [r |-> "raise", msg].                                                   *)
(***************************************************************************)
EXTENDS Integers, Sequences, FiniteSets, TLC

None == "<None>"

\* A local variable of a call that is not bound yet.
Unbound == [bound |-> FALSE]

\* ------------------------------------------------------------------------
\* Bounds of the model
\* ------------------------------------------------------------------------
MaxEntities == 2

\* ------------------------------------------------------------------------
\* JSON values
\* ------------------------------------------------------------------------
Num(n) == [t |-> "num", n |-> n]
Str(s) == [t |-> "str", s |-> s]
Bool(b) == [t |-> "bool", b |-> b]
Null == [t |-> "null"]
Dict(d) == [t |-> "dict", d |-> d]
List(items) == [t |-> "list", items |-> items]

XY(x, y) == Dict([k \in {"x", "y"} |-> IF k = "x" THEN Num(x) ELSE Num(y)])

Ok(v) == [r |-> "ok", v |-> v]
Absent == [r |-> "none"]
\* An exception: its class and its message.
RaiseAs(cls, msg) == [r |-> "raise", cls |-> cls, msg |-> msg]
\* An exception that is not a ValueError (the writer's errors, TypeError, ...).
Raise(msg) == RaiseAs("Exception", msg)

\* ------------------------------------------------------------------------
\* Static tables (dxf_export_service.py)
\* ------------------------------------------------------------------------
ENTITY_TYPE_MAPPING ==
    [k \in {"line", "polyline", "lwpolyline", "circle", "arc", "ellipse", "text",
            "mtext", "spline", "rectangle", "rect", "point", "dimension", "block",
            "angle-measurement", "leader", "hatch", "xline", "ray"} |->
        CASE k = "line" -> "LINE"
          [] k = "polyline" -> "POLYLINE"
          [] k = "lwpolyline" -> "LWPOLYLINE"
          [] k = "circle" -> "CIRCLE"
          [] k = "arc" -> "ARC"
          [] k = "ellipse" -> "ELLIPSE"
          [] k = "text" -> "TEXT"
          [] k = "mtext" -> "MTEXT"
          [] k = "spline" -> "SPLINE"
          [] k = "rectangle" -> "LWPOLYLINE"
          [] k = "rect" -> "LWPOLYLINE"
          [] k = "point" -> "POINT"
          [] k = "dimension" -> "DIMENSION"
          [] k = "block" -> "INSERT"
          [] k = "angle-measurement" -> None
          [] k = "leader" -> "LEADER"
          [] k = "hatch" -> "HATCH"
          [] k = "xline" -> "XLINE"
          [] k = "ray" -> "RAY"]

Versions == {"AC1009", "AC1015", "AC1018", "AC1021", "AC1024", "AC1027", "AC1032"}

DXF_VERSION_MAP ==
    [v \in Versions |->
        CASE v = "AC1009" -> "R12"
          [] v = "AC1015" -> "R2000"
          [] v = "AC1018" -> "R2004"
          [] v = "AC1021" -> "R2007"
          [] v = "AC1024" -> "R2010"
          [] v = "AC1027" -> "R2013"
          [] v = "AC1032" -> "R2018"]

R12_SUPPORTED_TYPES == {"LINE", "POLYLINE", "CIRCLE", "ARC", "TEXT", "POINT"}

\* dict.get(key, default)
PyGet(d, key, default) == IF key \in DOMAIN d THEN d[key] ELSE default

\* ------------------------------------------------------------------------
\* Python built-ins used by the helpers
\* ------------------------------------------------------------------------
\* str.upper() on the colour strings of the model; other strings have no
\* lower-case letter.
Upper(s) ==
    CASE s = "#ff0000" -> "#FF0000"
      [] s = "#ffff00" -> "#FFFF00"
      [] s = "#00ff00" -> "#00FF00"
      [] s = "#00ffFF" -> "#00FFFF"
      [] s = "#0000ff" -> "#0000FF"
      [] s = "#Ff00fF" -> "#FF00FF"
      [] s = "#ffffff" -> "#FFFFFF"
      [] s = "#abcdef" -> "#ABCDEF"
      [] s = "red" -> "RED"
      [] OTHER -> s

\* float(s) for a string: the numeric strings of the model, in tenths.
NumericStrings == [k \in {"1.5", "3"} |-> IF k = "1.5" THEN 15 ELSE 30]

\* float(v): a number, a bool (an int subclass) or a numeric string converts;
\* a non-numeric string raises ValueError, anything else TypeError.
Float(v) ==
    CASE v.t = "num" -> Ok(v.n)
      [] v.t = "bool" -> Ok(IF v.b THEN 10 ELSE 0)
      [] v.t = "str" ->
            IF v.s \in DOMAIN NumericStrings
            THEN Ok(NumericStrings[v.s])
            ELSE RaiseAs("ValueError", "could not convert string to float")
      [] OTHER -> Raise("float() argument must be a string or a real number")

\* Two conversions as a pair; the first that raised wins.
Pair(fa, fb) ==
    IF fa.r = "raise" THEN fa
    ELSE IF fb.r = "raise" THEN fb
    ELSE Ok(<<fa.v, fb.v>>)

\* (float(a), float(b))
FloatPair(a, b) == Pair(Float(a), Float(b))

\* ------------------------------------------------------------------------
\* Scene entities and the geometry extractors
\* ------------------------------------------------------------------------
\* SceneEntity: the declared fields and the bag of extra fields.
SceneEntity(id, type, layer, color, visible, extra) ==
    [id |-> id, type |-> type, layer |-> layer, color |-> color,
     visible |-> visible, extra |-> extra]

\* entity.model_dump(): the declared fields and the extras in one mapping.
model_dump(entity) ==
    [k \in {"id", "type", "layer", "color", "visible"} \cup DOMAIN entity.extra |->
        CASE k = "id" -> Str(entity.id)
          [] k = "type" -> Str(entity.type)
          [] k = "layer" -> Str(entity.layer)
          [] k = "color" -> IF entity.color = None THEN Null ELSE Str(entity.color)
          [] k = "visible" -> Bool(entity.visible)
          [] OTHER -> entity.extra[k]]

\* val.get("x", val.get("X")) of a dict value d.
Coord(d, lower, upper) == PyGet(d, lower, PyGet(d, upper, Null))

\* (float(x), float(y)) when neither coordinate is None.
XYPoint(x, y) == IF x.t # "null" /\ y.t # "null" THEN FloatPair(x, y) ELSE Absent

\* One point-shaped value: Ok(<<x, y>>), Absent when the shape does not
\* match, Raise when a coordinate does not convert.
PointOf(val) ==
    IF val.t = "dict"
    THEN XYPoint(Coord(val.d, "x", "X"), Coord(val.d, "y", "Y"))
    ELSE IF val.t = "list" /\ Len(val.items) >= 2
    THEN FloatPair(val.items[1], val.items[2])
    ELSE Absent

\* The value of the first alias, from the i-th on, that is point-shaped.
RECURSIVE PointScan(_, _, _)
PointFound(data, keys, i, p) ==
    IF p.r # "none" THEN p ELSE PointScan(data, keys, i + 1)

PointScan(data, keys, i) ==
    IF i > Len(keys) THEN Absent
    ELSE IF keys[i] \in DOMAIN data
    THEN PointFound(data, keys, i, PointOf(data[keys[i]]))
    ELSE PointScan(data, keys, i + 1)

_get_point(entity, keys) == PointScan(model_dump(entity), keys, 1)

\* A point p in front of the points rest of the later items.
Cons(p, rest) ==
    IF p.r = "raise" THEN p
    ELSE IF rest.r = "raise" THEN rest
    ELSE IF p.r = "none" THEN rest
    ELSE Ok(<<p.v>> \o rest.v)

\* The points of one list value, in order; an item of another shape is
\* dropped, a coordinate that does not convert raises.
RECURSIVE PointItems(_, _)
PointItems(items, i) ==
    IF i > Len(items) THEN Ok(<<>>)
    ELSE Cons(PointOf(items[i]), PointItems(items, i + 1))

\* The points of the first alias, from the i-th on, that is a list with a
\* point in it.
RECURSIVE PointsScan(_, _, _)
PointsFound(data, keys, i, pts) ==
    IF pts.r = "raise" THEN pts
    ELSE IF pts.v # <<>> THEN pts
    ELSE PointsScan(data, keys, i + 1)

PointsScan(data, keys, i) ==
    IF i > Len(keys) THEN Absent
    ELSE IF keys[i] \in DOMAIN data /\ data[keys[i]].t = "list"
    THEN PointsFound(data, keys, i, PointItems(data[keys[i]].items, 1))
    ELSE PointsScan(data, keys, i + 1)

_get_points(entity, keys) == PointsScan(model_dump(entity), keys, 1)

\* The first alias whose value has one of the wanted tags, or 0.
RECURSIVE FirstTyped(_, _, _, _)
FirstTyped(data, keys, tags, i) ==
    IF i > Len(keys) THEN 0
    ELSE IF keys[i] \in DOMAIN data /\ data[keys[i]].t \in tags THEN i
    ELSE FirstTyped(data, keys, tags, i + 1)

\* data[keys[i]] converted by float(), or None when no alias matched (i = 0).
FloatAt(data, keys, i) == IF i = 0 THEN Absent ELSE Float(data[keys[i]])

FloatIn(data, keys) == FloatAt(data, keys, FirstTyped(data, keys, {"num", "bool"}, 1))

\* isinstance(val, (int, float)) accepts a bool as well.
_get_float(entity, keys) == FloatIn(model_dump(entity), keys)

StringAt(data, keys, i) == IF i = 0 THEN Absent ELSE Ok(data[keys[i]].s)

StringIn(data, keys) == StringAt(data, keys, FirstTyped(data, keys, {"str"}, 1))

_get_string(entity, keys) == StringIn(model_dump(entity), keys)

BoolAt(data, keys, i) == IF i = 0 THEN FALSE ELSE data[keys[i]].b

BoolIn(data, keys) == BoolAt(data, keys, FirstTyped(data, keys, {"bool"}, 1))

_get_bool(entity, keys) == BoolIn(model_dump(entity), keys)

\* ------------------------------------------------------------------------
\* Colour and layer resolution
\* ------------------------------------------------------------------------
color_map ==
    [c \in {"#FF0000", "#FFFF00", "#00FF00", "#00FFFF", "#0000FF", "#FF00FF",
            "#FFFFFF", "#000000"} |->
        CASE c = "#FF0000" -> 1
          [] c = "#FFFF00" -> 2
          [] c = "#00FF00" -> 3
          [] c = "#00FFFF" -> 4
          [] c = "#0000FF" -> 5
          [] c = "#FF00FF" -> 6
          [] c = "#FFFFFF" -> 7
          [] c = "#000000" -> 0]

Lookup(normalized) ==
    IF normalized \in DOMAIN color_map THEN color_map[normalized] ELSE 7

\* Mutant: the table is read with the color as written.
HexToAciAsWritten(hex_color) == Lookup(hex_color)

_hex_to_aci(hex_color) == Lookup(Upper(hex_color))

\* Python truthiness of an optional string.
Truthy(s) == s # None /\ s # ""

\* a or b
PyOr(a, b) == IF Truthy(a) THEN a ELSE b

DxfLayerConfig(visible_only, include_locked, flatten_to_layer, layer_mapping, default_layer) ==
    [visible_only |-> visible_only, include_locked |-> include_locked,
     flatten_to_layer |-> flatten_to_layer, layer_mapping |-> layer_mapping,
     default_layer |-> default_layer]

\* Mutant: the layer mapping is looked up before the flatten target.
TargetLayerMappingFirst(entity_layer, config) ==
    IF entity_layer \in DOMAIN config.layer_mapping
    THEN PyOr(config.layer_mapping[entity_layer], config.default_layer)
    ELSE IF Truthy(config.flatten_to_layer) THEN config.flatten_to_layer
    ELSE PyOr(entity_layer, config.default_layer)

\* Mutant: no fallback to the default layer.
TargetLayerNoDefault(entity_layer, config) ==
    IF Truthy(config.flatten_to_layer)
    THEN config.flatten_to_layer
    ELSE PyGet(config.layer_mapping, entity_layer, entity_layer)

_get_target_layer(entity_layer, config) ==
    IF Truthy(config.flatten_to_layer)
    THEN config.flatten_to_layer
    ELSE PyOr(PyGet(config.layer_mapping, entity_layer, entity_layer), config.default_layer)

\* ------------------------------------------------------------------------
\* The document writer (ezdxf), at its boundary
\* ------------------------------------------------------------------------
\* The writer's behaviour is an input of the model: the names it refuses as
\* layer names (add_* and layers.add raise on them), the header keys it
\* refuses with DXFValueError, those it refuses with another error, and
\* whether serialization or encoding fails. It accepts every color index as
\* a layer color, unless RefusingColors says otherwise.
Writer(bad_names, invalid_keys, fatal_keys, write_fails) ==
    [bad_names |-> bad_names, invalid_keys |-> invalid_keys,
     fatal_keys |-> fatal_keys, write_fails |-> write_fails, bad_colors |-> {}]

\* The writer w, refusing the color indexes bad_colors as layer colors.
RefusingColors(w, bad_colors) == [w EXCEPT !.bad_colors = bad_colors]

\* msp.add_<kind>(..., dxfattribs=attribs): appends the primitive or raises.
msp_add(msp, prim, writer) ==
    IF prim.attribs.layer \in writer.bad_names
    THEN Raise("Invalid layer name")
    ELSE Ok(Append(msp, prim))

\* A builder that found its geometry incomplete draws nothing and returns.
NoDraw(msp) == Ok(msp)

\* ------------------------------------------------------------------------
\* Entity type handlers: each returns Ok(new msp) or Raise(message)
\* ------------------------------------------------------------------------
\* if start and end: msp.add_line(start, end, dxfattribs=attribs)
DrawLine(msp, attribs, writer, start, end) ==
    IF start.r = "raise" THEN start
    ELSE IF end.r = "raise" THEN end
    ELSE IF start.r = "ok" /\ end.r = "ok"
    THEN msp_add(msp, [kind |-> "LINE", start |-> start.v, end |-> end.v,
                       attribs |-> attribs], writer)
    ELSE NoDraw(msp)

_export_line(msp, entity, attribs, writer) ==
    DrawLine(msp, attribs, writer,
             _get_point(entity, <<"start", "startPoint", "p1">>),
             _get_point(entity, <<"end", "endPoint", "p2">>))

\* Mutant: a rectangle is closed only when its field says so.
IsClosedFromField(entity) == _get_bool(entity, <<"closed", "isClosed">>)

\* is_closed: the closed / isClosed field, True for a rectangle.
IsClosed(entity) ==
    IF entity.type \in {"rectangle", "rect"}
    THEN TRUE
    ELSE _get_bool(entity, <<"closed", "isClosed">>)

\* if points and len(points) >= 2: msp.add_lwpolyline(points, close=is_closed, ...)
DrawPolyline(msp, entity, attribs, writer, points) ==
    IF points.r = "raise" THEN points
    ELSE IF points.r = "ok" /\ Len(points.v) >= 2
    THEN msp_add(msp, [kind |-> "LWPOLYLINE", points |-> points.v,
                       close |-> IsClosed(entity), attribs |-> attribs], writer)
    ELSE NoDraw(msp)

_export_lwpolyline(msp, entity, attribs, writer) ==
    DrawPolyline(msp, entity, attribs, writer,
                 _get_points(entity, <<"points", "vertices", "polygon">>))

\* if center and radius: msp.add_circle(center, radius, dxfattribs=attribs)
DrawCircle(msp, attribs, writer, center, radius) ==
    IF center.r = "raise" THEN center
    ELSE IF center.r = "ok" /\ radius.r = "ok" /\ radius.v # 0
    THEN msp_add(msp, [kind |-> "CIRCLE", center |-> center.v,
                       radius |-> radius.v, attribs |-> attribs], writer)
    ELSE NoDraw(msp)

_export_circle(msp, entity, attribs, writer) ==
    DrawCircle(msp, attribs, writer,
               _get_point(entity, <<"center", "centerPoint">>),
               _get_float(entity, <<"radius", "r">>))

\* if center and radius is not None and start_angle is not None and
\* end_angle is not None: msp.add_arc(...)
DrawArc(msp, attribs, writer, center, radius, start_angle, end_angle) ==
    IF center.r = "raise" THEN center
    ELSE IF /\ center.r = "ok"
            /\ radius.r = "ok"
            /\ start_angle.r = "ok"
            /\ end_angle.r = "ok"
    THEN msp_add(msp, [kind |-> "ARC", center |-> center.v, radius |-> radius.v,
                       start_angle |-> start_angle.v, end_angle |-> end_angle.v,
                       attribs |-> attribs], writer)
    ELSE NoDraw(msp)

_export_arc(msp, entity, attribs, writer) ==
    DrawArc(msp, attribs, writer,
            _get_point(entity, <<"center", "centerPoint">>),
            _get_float(entity, <<"radius", "r">>),
            _get_float(entity, <<"startAngle", "start_angle">>),
            _get_float(entity, <<"endAngle", "end_angle">>))

\* The default text height, 2.5, in tenths.
DefaultTextHeight == 25

\* x or default, for an optional float.
FloatOr(x, default) == IF x.r = "ok" /\ x.v # 0 THEN x.v ELSE default

\* attribs with attribs["height"] and attribs["rotation"] set.
TextAttribs(attribs, height, rotation) ==
    [k \in DOMAIN attribs \cup {"height", "rotation"} |->
        CASE k = "height" -> height
          [] k = "rotation" -> rotation
          [] OTHER -> attribs[k]]

\* if insert and text: ... msp.add_text(text, dxfattribs=attribs).set_placement(insert)
DrawText(msp, entity, attribs, writer, insert, text, height) ==
    IF insert.r = "raise" THEN insert
    ELSE IF insert.r = "ok" /\ text.r = "ok" /\ text.v # ""
    THEN msp_add(msp, [kind |-> "TEXT", text |-> text.v, insert |-> insert.v,
                       attribs |-> TextAttribs(attribs, height,
                            FloatOr(_get_float(entity, <<"rotation", "angle">>), 0))],
                 writer)
    ELSE NoDraw(msp)

_export_text(msp, entity, attribs, writer) ==
    DrawText(msp, entity, attribs, writer,
             _get_point(entity, <<"insert", "position", "location">>),
             _get_string(entity, <<"text", "content", "value">>),
             FloatOr(_get_float(entity, <<"height", "fontSize">>), DefaultTextHeight))

\* if location: msp.add_point(location, dxfattribs=attribs)
DrawPoint(msp, attribs, writer, location) ==
    IF location.r = "raise" THEN location
    ELSE IF location.r = "ok"
    THEN msp_add(msp, [kind |-> "POINT", location |-> location.v,
                       attribs |-> attribs], writer)
    ELSE NoDraw(msp)

_export_point(msp, entity, attribs, writer) ==
    DrawPoint(msp, attribs, writer,
              _get_point(entity, <<"location", "position", "point">>))

\* ------------------------------------------------------------------------
\* Export of one entity
\* ------------------------------------------------------------------------
\* An f-string message: its fixed text and the value formatted into it.
Msg(text, arg) == [text |-> text, arg |-> arg]

DxfEntityExportResult(entity_id, success, dxf_type, warnings, error) ==
    [entity_id |-> entity_id, success |-> success, dxf_type |-> dxf_type,
     warnings |-> warnings, error |-> error]

\* The common attributes: the layer, and the colour index when the entity
\* has a (non-empty) colour.
Attribs(layer, color) ==
    IF Truthy(color)
    THEN [layer |-> layer, color |-> _hex_to_aci(color)]
    ELSE [layer |-> layer]

CommonAttribs(entity, settings) ==
    Attribs(_get_target_layer(entity.layer, settings.layers), entity.color)

Builders == {"LINE", "LWPOLYLINE", "CIRCLE", "ARC", "TEXT", "POINT"}

\* The dispatch on the primitive kind, for a kind that has a builder.
Dispatch(dxf_type, msp, entity, attribs, writer) ==
    CASE dxf_type = "LINE" -> _export_line(msp, entity, attribs, writer)
      [] dxf_type = "LWPOLYLINE" -> _export_lwpolyline(msp, entity, attribs, writer)
      [] dxf_type = "CIRCLE" -> _export_circle(msp, entity, attribs, writer)
      [] dxf_type = "ARC" -> _export_arc(msp, entity, attribs, writer)
      [] dxf_type = "TEXT" -> _export_text(msp, entity, attribs, writer)
      [] dxf_type = "POINT" -> _export_point(msp, entity, attribs, writer)

\* The result of a builder that returned normally.
BuilderReturned(entity, dxf_type) ==
    DxfEntityExportResult(entity.id, TRUE, dxf_type, <<>>, None)

\* Mutant: an exception of the builder is swallowed and the entity reported
\* as exported.
BuiltSwallow(msp, entity, dxf_type, built) ==
    IF built.r = "raise"
    THEN [result |-> BuilderReturned(entity, dxf_type), msp |-> msp]
    ELSE [result |-> BuilderReturned(entity, dxf_type), msp |-> built.v]

\* The try block's outcome: the builder returned, or raised into the
\* except clause.
Built(msp, entity, dxf_type, built) ==
    IF built.r = "raise"
    THEN [result |-> DxfEntityExportResult(entity.id, FALSE, dxf_type, <<>>, built.msg),
          msp |-> msp]
    ELSE [result |-> BuilderReturned(entity, dxf_type), msp |-> built.v]

\* Mutant: the R12 compatibility check is missing.
ExportAsNoVersionCheck(msp, entity, settings, writer, dxf_type) ==
    IF dxf_type = None
    THEN [result |-> DxfEntityExportResult(entity.id, FALSE, None,
                        <<Msg("Entity type is not exportable", entity.type)>>, None),
          msp |-> msp]
    ELSE IF dxf_type \notin Builders
    THEN [result |-> DxfEntityExportResult(entity.id, FALSE, dxf_type,
                        <<Msg("Export not yet implemented", dxf_type)>>,
                        "Entity type export not implemented"),
          msp |-> msp]
    ELSE Built(msp, entity, dxf_type,
               Dispatch(dxf_type, msp, entity, CommonAttribs(entity, settings), writer))

\* The entity's result and the model space after it, for its primitive kind.
ExportAs(msp, entity, settings, writer, dxf_type) ==
    IF dxf_type = None
    THEN [result |-> DxfEntityExportResult(entity.id, FALSE, None,
                        <<Msg("Entity type is not exportable", entity.type)>>, None),
          msp |-> msp]
    ELSE IF settings.version = "AC1009" /\ dxf_type \notin R12_SUPPORTED_TYPES
    THEN [result |-> DxfEntityExportResult(entity.id, FALSE, dxf_type,
                        <<Msg("Entity type not supported in R12", dxf_type)>>,
                        "R12 version does not support this entity type"),
          msp |-> msp]
    ELSE IF dxf_type \notin Builders
    THEN [result |-> DxfEntityExportResult(entity.id, FALSE, dxf_type,
                        <<Msg("Export not yet implemented", dxf_type)>>,
                        "Entity type export not implemented"),
          msp |-> msp]
    ELSE Built(msp, entity, dxf_type,
               Dispatch(dxf_type, msp, entity, CommonAttribs(entity, settings), writer))

_export_entity(msp, entity, settings, writer) ==
    ExportAs(msp, entity, settings, writer, PyGet(ENTITY_TYPE_MAPPING, entity.type, None))

\* ------------------------------------------------------------------------
\* Entity filter
\* ------------------------------------------------------------------------
\* An optional list argument: None, or a list.
NoList == [given |-> FALSE, items |-> <<>>]
SomeList(items) == [given |-> TRUE, items |-> items]

Elems(seq) == {seq[i] : i \in 1..Len(seq)}

\* `if entity_ids:` / `if layer_names:`: the argument is a non-empty list.
ListTruthy(opt) == opt.given /\ opt.items # <<>>

_filter_entities(entities, entity_ids, layer_names, config) ==
    LET id_set == Elems(entity_ids.items)
        layer_set == Elems(layer_names.items)
        by_id == IF ListTruthy(entity_ids)
                 THEN SelectSeq(entities, LAMBDA e : e.id \in id_set)
                 ELSE entities
        by_layer == IF ListTruthy(layer_names)
                    THEN SelectSeq(by_id, LAMBDA e : e.layer \in layer_set)
                    ELSE by_id
    IN  IF config.visible_only
        THEN SelectSeq(by_layer, LAMBDA e : e.visible)
        ELSE by_layer

\* ------------------------------------------------------------------------
\* Document setup
\* ------------------------------------------------------------------------
Units == {"unitless", "inches", "feet", "miles", "millimeters", "centimeters",
          "meters", "kilometers"}

UNIT_VALUES ==
    [u \in Units |->
        CASE u = "unitless" -> 0
          [] u = "inches" -> 1
          [] u = "feet" -> 2
          [] u = "miles" -> 3
          [] u = "millimeters" -> 4
          [] u = "centimeters" -> 5
          [] u = "meters" -> 6
          [] u = "kilometers" -> 7]

\* The export settings the engine reads (the quality sub-settings and
\* include_timestamp are never read by it).
DxfExportSettings(version, units, encoding, layers, include_metadata, application_name, header_variables) ==
    [version |-> version, units |-> units, encoding |-> encoding, layers |-> layers,
     include_metadata |-> include_metadata, application_name |-> application_name,
     header_variables |-> header_variables]

SceneLayer(name, color, visible, locked) ==
    [name |-> name, color |-> color, visible |-> visible, locked |-> locked]

SceneModel(entities, layers, metadata) ==
    [entities |-> entities, layers |-> layers, metadata |-> metadata]

\* ezdxf.new(dxfversion): an empty model space, no header variable set by
\* the engine yet, and the layer table every new drawing has.
NewLayer == [color |-> 7, locked |-> FALSE]

NewDocument(dxfversion) ==
    [dxfversion |-> dxfversion,
     header |-> [k \in {} |-> 0],
     layers |-> [n \in {"0", "Defpoints"} |-> NewLayer],
     msp |-> <<>>]

\* header[key] = value
SetHeader(header, key, value) ==
    [k \in DOMAIN header \cup {key} |-> IF k = key THEN value ELSE header[k]]

\* The custom header variables, in the mapping's order (keys: a sequence).
\* A key the writer refuses with DXFValueError is skipped; any other error
\* of the writer leaves the loop and the function.
RECURSIVE CustomHeaders(_, _, _, _, _)
CustomHeaders(header, vars, keys, i, writer) ==
    IF i > Len(keys) THEN Ok(header)
    ELSE IF keys[i] \in writer.fatal_keys THEN Raise("header variable")
    ELSE IF keys[i] \in writer.invalid_keys
    THEN CustomHeaders(header, vars, keys, i + 1, writer)
    ELSE CustomHeaders(SetHeader(header, keys[i], vars[keys[i]]), vars, keys, i + 1, writer)

\* An order of the keys of a mapping (its insertion order).
RECURSIVE KeyOrder(_)
KeyOrder(keys) ==
    IF keys = {} THEN <<>>
    ELSE LET k == CHOOSE x \in keys : TRUE
         IN  <<k>> \o KeyOrder(keys \ {k})

_set_header_variables(doc, settings, writer) ==
    LET units == SetHeader(doc.header, "$INSUNITS", PyGet(UNIT_VALUES, settings.units, 4))
        named == IF settings.include_metadata
                 THEN SetHeader(units, "$LASTSAVEDBY", settings.application_name)
                 ELSE units
        custom == CustomHeaders(named, settings.header_variables,
                                KeyOrder(DOMAIN settings.header_variables), 1, writer)
    IN  IF custom.r = "raise" THEN custom
        ELSE Ok([doc EXCEPT !.header = custom.v])

\* doc.layers.add(name): raises for a name the writer refuses or one that
\* is already in the table.
layers_add(layers, name, writer) ==
    IF name \in writer.bad_names THEN Raise("Invalid layer name")
    ELSE IF name \in DOMAIN layers THEN Raise("Layer already exists")
    ELSE Ok([n \in DOMAIN layers \cup {name} |->
                IF n = name THEN NewLayer ELSE layers[n]])

\* dxf_layer.color = ...; dxf_layer.lock() on a layer just added: a color
\* the writer refuses raises before the lock, and the layer stays as added.
SetLayer(layers, layer_name, layer, writer) ==
    IF Truthy(layer.color) /\ _hex_to_aci(layer.color) \in writer.bad_colors
    THEN layers
    ELSE [layers EXCEPT ![layer_name] =
             [color |-> IF Truthy(layer.color) THEN _hex_to_aci(layer.color) ELSE @.color,
              locked |-> layer.locked]]

\* The layer just added, with its properties; the table as it was when the
\* add raised.
Added(layers, layer_name, layer, writer, added) ==
    IF added.r = "raise" THEN layers ELSE SetLayer(added.v, layer_name, layer, writer)

\* Mutant: invisible layers are created as well.
CreateLayerAlsoInvisible(layers, layer, config, writer) ==
    IF ~config.include_locked /\ layer.locked THEN layers
    ELSE IF Truthy(config.flatten_to_layer) THEN layers
    ELSE Added(layers, PyGet(config.layer_mapping, layer.name, layer.name), layer, writer,
               layers_add(layers, PyGet(config.layer_mapping, layer.name, layer.name), writer))

\* The layer table after one scene layer.
CreateLayer(layers, layer, config, writer) ==
    IF config.visible_only /\ ~layer.visible THEN layers
    ELSE IF ~config.include_locked /\ layer.locked THEN layers
    ELSE IF Truthy(config.flatten_to_layer) THEN layers
    ELSE Added(layers, PyGet(config.layer_mapping, layer.name, layer.name), layer, writer,
               layers_add(layers, PyGet(config.layer_mapping, layer.name, layer.name), writer))

RECURSIVE SceneLayers(_, _, _, _, _)
SceneLayers(layers, scene_layers, i, config, writer) ==
    IF i > Len(scene_layers) THEN layers
    ELSE SceneLayers(CreateLayer(layers, scene_layers[i], config, writer),
                     scene_layers, i + 1, config, writer)

_create_layers(doc, scene_layers, config, writer) ==
    LET created == SceneLayers(doc.layers, scene_layers, 1, config, writer)
        target_layer == PyOr(config.flatten_to_layer, config.default_layer)
    IN  IF target_layer \in DOMAIN created
        THEN Ok([doc EXCEPT !.layers = created])
        ELSE LET added == layers_add(created, target_layer, writer)
             IN  IF added.r = "raise" THEN added
                 ELSE Ok([doc EXCEPT !.layers = added.v])

\* ------------------------------------------------------------------------
\* Validation
\* ------------------------------------------------------------------------
ValidationIssue(severity, code, message, suggestion) ==
    [severity |-> severity, code |-> code, message |-> message,
     suggestion |-> suggestion]

DxfEntityValidationResult(entity_id, entity_type, exportable, issues) ==
    [entity_id |-> entity_id, entity_type |-> entity_type,
     exportable |-> exportable, issues |-> issues]

\* Mutant: a kind that is not exportable is reported as an error.
ValidateEntityAsError(entity, target_version) ==
    IF PyGet(ENTITY_TYPE_MAPPING, entity.type, None) = None
       \/ (target_version = "AC1009"
           /\ PyGet(ENTITY_TYPE_MAPPING, entity.type, None) \notin R12_SUPPORTED_TYPES)
    THEN DxfEntityValidationResult(entity.id, entity.type, FALSE,
            <<ValidationIssue("error", "VERSION_INCOMPATIBLE",
                              Msg("Entity type not supported", entity.type),
                              "Use R2000 (AC1015) or later for full entity support")>>)
    ELSE DxfEntityValidationResult(entity.id, entity.type, TRUE, <<>>)

\* Mutant: the R12 set is applied at every target version.
ValidateEntityEveryVersion(entity, target_version) ==
    IF PyGet(ENTITY_TYPE_MAPPING, entity.type, None) = None
    THEN DxfEntityValidationResult(entity.id, entity.type, FALSE,
            <<ValidationIssue("warning", "NOT_EXPORTABLE",
                              Msg("Entity type cannot be exported to DXF", entity.type),
                              "This entity will be skipped during export")>>)
    ELSE IF PyGet(ENTITY_TYPE_MAPPING, entity.type, None) \notin R12_SUPPORTED_TYPES
    THEN DxfEntityValidationResult(entity.id, entity.type, FALSE,
            <<ValidationIssue("error", "VERSION_INCOMPATIBLE",
                              Msg("Entity type not supported in R12",
                                  PyGet(ENTITY_TYPE_MAPPING, entity.type, None)),
                              "Use R2000 (AC1015) or later for full entity support")>>)
    ELSE DxfEntityValidationResult(entity.id, entity.type, TRUE, <<>>)

_validate_entity(entity, target_version) ==
    LET dxf_type == PyGet(ENTITY_TYPE_MAPPING, entity.type, None)
    IN  IF dxf_type = None
        THEN DxfEntityValidationResult(entity.id, entity.type, FALSE,
                <<ValidationIssue("warning", "NOT_EXPORTABLE",
                                  Msg("Entity type cannot be exported to DXF", entity.type),
                                  "This entity will be skipped during export")>>)
        ELSE IF target_version = "AC1009" /\ dxf_type \notin R12_SUPPORTED_TYPES
        THEN DxfEntityValidationResult(entity.id, entity.type, FALSE,
                <<ValidationIssue("error", "VERSION_INCOMPATIBLE",
                                  Msg("Entity type not supported in R12", dxf_type),
                                  "Use R2000 (AC1015) or later for full entity support")>>)
        ELSE DxfEntityValidationResult(entity.id, entity.type, TRUE, <<>>)

\* The number of issues of one severity in a list of validation results.
RECURSIVE CountIssues(_, _)
CountIssues(results, severities) ==
    IF results = <<>> THEN 0
    ELSE Len(SelectSeq(Head(results).issues, LAMBDA i : i.severity \in severities))
         + CountIssues(Tail(results), severities)

\* Mutant: warnings count against validity.
ValidateSceneStrict(scene, target_version) ==
    LET entity_results ==
            [k \in 1..Len(scene.entities) |->
                _validate_entity(scene.entities[k], target_version)]
        exportable_count == Len(SelectSeq(entity_results, LAMBDA r : r.exportable))
        error_count == CountIssues(entity_results, {"error"})
        warning_count == CountIssues(entity_results, {"warning"})
        info_count == CountIssues(entity_results, {"info"})
    IN  [valid |-> error_count + warning_count = 0,
         target_version |-> target_version,
         total_entities |-> Len(scene.entities),
         exportable_entities |-> exportable_count,
         non_exportable_entities |-> Len(scene.entities) - exportable_count,
         entity_results |-> entity_results,
         issue_summary |-> [errors |-> error_count, warnings |-> warning_count,
                            info |-> info_count]]

validate_scene(scene, target_version) ==
    LET entity_results ==
            [k \in 1..Len(scene.entities) |->
                _validate_entity(scene.entities[k], target_version)]
        exportable_count == Len(SelectSeq(entity_results, LAMBDA r : r.exportable))
        error_count == CountIssues(entity_results, {"error"})
        warning_count == CountIssues(entity_results, {"warning"})
        info_count == CountIssues(entity_results, {"info"})
    IN  [valid |-> error_count = 0,
         target_version |-> target_version,
         total_entities |-> Len(scene.entities),
         exportable_entities |-> exportable_count,
         non_exportable_entities |-> Len(scene.entities) - exportable_count,
         entity_results |-> entity_results,
         issue_summary |-> [errors |-> error_count, warnings |-> warning_count,
                            info |-> info_count]]

\* ------------------------------------------------------------------------
\* Finalization
\* ------------------------------------------------------------------------
\* doc.write, str.encode and base64: the content stands for the document it
\* was written from; the size counts its records.
\* The strings of the model that hold a character outside ASCII: the
\* one-letter text of a Greek capital omega.
Omega == "<U+03A9>"

NonAscii == {Omega}

\* The encodings that have the Greek letter: str.encode raises
\* UnicodeEncodeError with any other.
Encodes(encoding, str) == str \notin NonAscii \/ encoding \in {"utf-8", "cp1253"}

\* The strings doc.write puts into the content: the texts, the layer names
\* and the authoring application.
DocStrings(doc) ==
    {doc.msp[k].text : k \in {j \in 1..Len(doc.msp) : doc.msp[j].kind = "TEXT"}}
        \cup DOMAIN doc.layers
        \cup {doc.header[h] : h \in DOMAIN doc.header \cap {"$LASTSAVEDBY"}}

_generate_dxf_content(doc, encoding, writer) ==
    IF writer.write_fails THEN Raise("write failed")
    ELSE IF \E str \in DocStrings(doc) : ~Encodes(encoding, str)
    THEN RaiseAs("UnicodeEncodeError", "codec can't encode character")
    ELSE Ok([data |-> [encoding |-> encoding, header |-> doc.header,
                       layers |-> doc.layers, msp |-> doc.msp],
             file_size |-> Cardinality(DOMAIN doc.header)
                           + Cardinality(DOMAIN doc.layers) + Len(doc.msp)])

\* A name is a sequence of characters; c.isalnum() for the characters of
\* the model.
Alnum == {"M", "y", "D", "r", "a", "w", "1", "e", "x", "p", "o", "t", Omega}

\* Mutant: path separators and dots pass through.
SafeCharKeepsPath(c) == IF c \in Alnum \/ c \in {"-", "_", ".", "/"} THEN c ELSE "_"

SafeChar(c) == IF c \in Alnum \/ c \in {"-", "_"} THEN c ELSE "_"

_generate_filename(scene, settings) ==
    LET name == PyGet(scene.metadata, "name", Str(<<"e", "x", "p", "o", "r", "t">>))
        safe_name == IF name.t = "str"
                     THEN [k \in 1..Len(name.s) |-> SafeChar(name.s[k])]
                     ELSE <<"e", "x", "p", "o", "r", "t">>
    IN  [base |-> safe_name, sep |-> "_", version_suffix |-> settings.version,
         ext |-> ".dxf"]

\* Mutant: an export that exported nothing is an error.
DetermineStatusNoExport(exported_count, failed_count) ==
    IF exported_count = 0 THEN "error"
    ELSE IF failed_count > 0 THEN "partial"
    ELSE "success"

\* if failed_count > 0: PARTIAL if exported_count > 0 else ERROR; else SUCCESS
DetermineStatus(exported_count, failed_count) ==
    IF failed_count > 0
    THEN IF exported_count > 0 THEN "partial" ELSE "error"
    ELSE "success"

\* ------------------------------------------------------------------------
\* State
\* ------------------------------------------------------------------------
\* ------------------------------------------------------------------------
\* export_scene and the two endpoints as functions of their arguments: what
\* an invocation returns when it runs from its first line to its last.
\* ------------------------------------------------------------------------
\* for entity in entities_to_export: the model space and the results after
\* the entities from the i-th on.
RECURSIVE ExportLoop(_, _, _, _, _, _)
LoopNext(entities, i, settings, writer, results, out) ==
    ExportLoop(out.msp, entities, i + 1, settings, writer, Append(results, out.result))

ExportLoop(msp, entities, i, settings, writer, results) ==
    IF i > Len(entities) THEN [msp |-> msp, results |-> results]
    ELSE LoopNext(entities, i, settings, writer, results,
                  _export_entity(msp, entities[i], settings, writer))

\* warnings.extend(result.warnings), result by result.
RECURSIVE WarningsOf(_, _)
WarningsOf(results, i) ==
    IF i > Len(results) THEN <<>>
    ELSE results[i].warnings \o WarningsOf(results, i + 1)

ExportedIn(results) == Len(SelectSeq(results, LAMBDA r : r.success))

SkippedIn(results) == Len(SelectSeq(results, LAMBDA r : ~r.success /\ r.dxf_type = None))

FailedIn(results) == Len(SelectSeq(results, LAMBDA r : ~r.success /\ r.dxf_type # None))

\* return DxfExportResponse(...), or the exception of the content generation.
ResponseOf(scene, settings, doc, results, content) ==
    IF content.r = "raise" THEN content
    ELSE Ok([status |-> DetermineStatus(ExportedIn(results), FailedIn(results)),
             data |-> content.v.data,
             file_size |-> content.v.file_size,
             mime_type |-> "application/dxf",
             filename |-> _generate_filename(scene, settings),
             stats |-> [total_entities |-> Len(scene.entities),
                        exported_entities |-> ExportedIn(results),
                        skipped_entities |-> SkippedIn(results),
                        failed_entities |-> FailedIn(results),
                        layers_exported |-> Cardinality(DOMAIN doc.layers),
                        export_time_ms |-> 0],
             entity_results |-> results,
             warnings |-> WarningsOf(results, 1),
             error |-> None])

WithEntities(request, writer, doc, loop) ==
    ResponseOf(request.scene, request.settings, doc, loop.results,
               _generate_dxf_content([doc EXCEPT !.msp = loop.msp],
                                     request.settings.encoding, writer))

WithLayers(request, writer, created) ==
    IF created.r = "raise" THEN created
    ELSE WithEntities(request, writer, created.v,
                      ExportLoop(created.v.msp,
                                 _filter_entities(request.scene.entities, request.entity_ids,
                                                  request.layer_names, request.settings.layers),
                                 1, request.settings, writer, <<>>))

WithHeader(request, writer, set) ==
    IF set.r = "raise" THEN set
    ELSE WithLayers(request, writer,
                    _create_layers(set.v, request.scene.layers, request.settings.layers,
                                   writer))

export_scene(request, writer) ==
    WithHeader(request, writer,
               _set_header_variables(NewDocument(DXF_VERSION_MAP[request.settings.version]),
                                     request.settings, writer))

VARIABLES
    request,              \* the request: scene, settings, entity_ids, layer_names, target_version
    writer,               \* the document writer's behaviour (see Writer)
    pc,                   \* the invocation's position
    doc,                  \* the ezdxf document of the export, Unbound before it is created
    entities_to_export,   \* the filtered entities
    entity_results,       \* export_scene's entity_results
    exported_count,
    skipped_count,
    failed_count,
    warnings,             \* export_scene's flattened warnings
    emitted,              \* history: per converted entity, the primitives it added
    response,             \* the DxfExportResponse, Unbound before the return
    validation,           \* the DxfExportValidationResponse, Unbound before the return
    app_settings,         \* the application settings: feature flag, entity limit
    http,                 \* the endpoint's HTTP outcome, Pending while the request runs
    other                 \* a second invocation served by the same process

vars == <<request, writer, pc, doc, entities_to_export, entity_results, exported_count,
          skipped_count, failed_count, warnings, emitted, response, validation,
          app_settings, http, other>>

locals == <<entities_to_export, entity_results, exported_count, skipped_count,
            failed_count, warnings, emitted>>

\* ------------------------------------------------------------------------
\* export_scene, one step per stage and one per entity of the loop
\* ------------------------------------------------------------------------
\* The endpoints (api/export.py): what the caller receives.
HTTPException(status_code, code) == [status_code |-> status_code, code |-> code]

\* No outcome yet: the request is still running.
Pending == [status_code |-> 0, code |-> None]

\* A returned response model.
HttpOk == [status_code |-> 200, code |-> None]

\* The exception classes `except ValueError` catches.
ValueErrors == {"ValueError", "UnicodeEncodeError"}

\* The except clauses of the export endpoint.
Caught(exc) ==
    IF exc.cls \in ValueErrors
    THEN HTTPException(400, "VALIDATION_ERROR")
    ELSE HTTPException(500, "EXPORT_ERROR")

\* check_feature_flag: the export route's dependency, run before its body.
CheckFeatureFlag ==
    /\ pc = "idle"
    /\ ~app_settings.feature_flag_enabled
    /\ http' = HTTPException(503, "FEATURE_DISABLED")
    /\ pc' = "rejected"
    /\ UNCHANGED <<request, writer, app_settings, other, doc, locals, response, validation>>

\* if entity_count > settings.max_entities_per_request: raise HTTPException(413)
CheckEntityCount ==
    /\ pc = "idle"
    /\ app_settings.feature_flag_enabled
    /\ Len(request.scene.entities) > app_settings.max_entities_per_request
    /\ http' = HTTPException(413, "ENTITY_LIMIT_EXCEEDED")
    /\ pc' = "rejected"
    /\ UNCHANGED <<request, writer, app_settings, other, doc, locals, response, validation>>

\* Mutant: the export route without its feature flag dependency.
CreateDocumentUngated ==
    /\ pc = "idle"
    /\ Len(request.scene.entities) <= app_settings.max_entities_per_request
    /\ doc' = NewDocument(DXF_VERSION_MAP[request.settings.version])
    /\ pc' = "Init"
    /\ UNCHANGED <<request, writer, app_settings, other, locals, response, validation, http>>

\* The export endpoint passes its checks and calls service.export_scene:
\* doc = ezdxf.new(dxfversion=DXF_VERSION_MAP[settings.version])
CreateDocument ==
    /\ pc = "idle"
    /\ app_settings.feature_flag_enabled
    /\ Len(request.scene.entities) <= app_settings.max_entities_per_request
    /\ doc' = NewDocument(DXF_VERSION_MAP[request.settings.version])
    /\ pc' = "Init"
    /\ UNCHANGED <<request, writer, app_settings, other, locals, response, validation, http>>

SetHeaderVariables ==
    /\ pc = "Init"
    /\ LET set == _set_header_variables(doc, request.settings, writer)
       IN  IF set.r = "raise"
           THEN pc' = "raised" /\ doc' = doc /\ http' = Caught(set)
           ELSE pc' = "HeaderSet" /\ doc' = set.v /\ http' = http
    /\ UNCHANGED <<request, writer, app_settings, other, locals, response, validation>>

CreateLayers ==
    /\ pc = "HeaderSet"
    /\ LET created == _create_layers(doc, request.scene.layers,
                                     request.settings.layers, writer)
       IN  IF created.r = "raise"
           THEN pc' = "raised" /\ doc' = doc /\ http' = Caught(created)
           ELSE pc' = "LayersCreated" /\ doc' = created.v /\ http' = http
    /\ UNCHANGED <<request, writer, app_settings, other, locals, response, validation>>

\* Mutant: the filter removes the entities from the scene's own list.
FilterEntitiesInPlace ==
    /\ pc = "LayersCreated"
    /\ entities_to_export' = _filter_entities(request.scene.entities, request.entity_ids,
                                              request.layer_names, request.settings.layers)
    /\ request' = [request EXCEPT !.scene.entities = entities_to_export']
    /\ entity_results' = <<>>
    /\ exported_count' = 0
    /\ skipped_count' = 0
    /\ failed_count' = 0
    /\ warnings' = <<>>
    /\ pc' = "Filtered"
    /\ UNCHANGED <<writer, app_settings, other, doc, emitted, response, validation, http>>

FilterEntities ==
    /\ pc = "LayersCreated"
    /\ entities_to_export' = _filter_entities(request.scene.entities, request.entity_ids,
                                              request.layer_names, request.settings.layers)
    /\ entity_results' = <<>>
    /\ exported_count' = 0
    /\ skipped_count' = 0
    /\ failed_count' = 0
    /\ warnings' = <<>>
    /\ pc' = "Filtered"
    /\ UNCHANGED <<request, writer, app_settings, other, doc, emitted, response, validation, http>>

\* Mutant: `if` for `elif`, a result without a primitive kind is counted as
\* skipped and as failed.
RecordDouble(out) ==
    /\ doc' = [doc EXCEPT !.msp = out.msp]
    /\ entity_results' = Append(entity_results, out.result)
    /\ exported_count' = IF out.result.success THEN exported_count + 1 ELSE exported_count
    /\ skipped_count' = IF ~out.result.success /\ out.result.dxf_type = None
                        THEN skipped_count + 1 ELSE skipped_count
    /\ failed_count' = IF ~out.result.success THEN failed_count + 1 ELSE failed_count
    /\ warnings' = warnings \o out.result.warnings
    /\ emitted' = Append(emitted, SubSeq(out.msp, Len(doc.msp) + 1, Len(out.msp)))

\* Mutant: the result is inserted at the front of the list.
RecordPrepend(out) ==
    /\ doc' = [doc EXCEPT !.msp = out.msp]
    /\ entity_results' = <<out.result>> \o entity_results
    /\ exported_count' = IF out.result.success THEN exported_count + 1 ELSE exported_count
    /\ skipped_count' = IF ~out.result.success /\ out.result.dxf_type = None
                        THEN skipped_count + 1 ELSE skipped_count
    /\ failed_count' = IF ~out.result.success /\ out.result.dxf_type # None
                       THEN failed_count + 1 ELSE failed_count
    /\ warnings' = warnings \o out.result.warnings
    /\ emitted' = Append(emitted, SubSeq(out.msp, Len(doc.msp) + 1, Len(out.msp)))

\* The loop body after `result = self._export_entity(msp, entity, settings)`.
Record(out) ==
    /\ doc' = [doc EXCEPT !.msp = out.msp]
    /\ entity_results' = Append(entity_results, out.result)
    /\ exported_count' = IF out.result.success THEN exported_count + 1 ELSE exported_count
    /\ skipped_count' = IF ~out.result.success /\ out.result.dxf_type = None
                        THEN skipped_count + 1 ELSE skipped_count
    /\ failed_count' = IF ~out.result.success /\ out.result.dxf_type # None
                       THEN failed_count + 1 ELSE failed_count
    /\ warnings' = warnings \o out.result.warnings
    /\ emitted' = Append(emitted, SubSeq(out.msp, Len(doc.msp) + 1, Len(out.msp)))

\* One iteration of `for entity in entities_to_export`.
ExportEntity ==
    /\ pc \in {"Filtered", "Converting"}
    /\ Len(entity_results) < Len(entities_to_export)
    /\ Record(_export_entity(doc.msp, entities_to_export[Len(entity_results) + 1],
                             request.settings, writer))
    /\ pc' = "Converting"
    /\ UNCHANGED <<request, writer, app_settings, other, entities_to_export, response, validation,
                   http>>

\* After the loop: content, status, filename and the response.
Finalize ==
    /\ pc \in {"Filtered", "Converting"}
    /\ Len(entity_results) = Len(entities_to_export)
    /\ LET content == _generate_dxf_content(doc, request.settings.encoding, writer)
       IN  IF content.r = "raise"
           THEN pc' = "raised" /\ response' = response /\ http' = Caught(content)
           ELSE /\ pc' = "Finalized"
                /\ http' = HttpOk
                /\ response' =
                    [status |-> DetermineStatus(exported_count, failed_count),
                     data |-> content.v.data,
                     file_size |-> content.v.file_size,
                     mime_type |-> "application/dxf",
                     filename |-> _generate_filename(request.scene, request.settings),
                     stats |-> [total_entities |-> Len(request.scene.entities),
                                exported_entities |-> exported_count,
                                skipped_entities |-> skipped_count,
                                failed_entities |-> failed_count,
                                layers_exported |-> Cardinality(DOMAIN doc.layers),
                                export_time_ms |-> 0],
                     entity_results |-> entity_results,
                     warnings |-> warnings,
                     error |-> None]
    /\ UNCHANGED <<request, writer, app_settings, other, doc, locals, validation>>

\* ------------------------------------------------------------------------
\* validate_scene
\* ------------------------------------------------------------------------
ValidateScene ==
    /\ pc = "idle"
    /\ validation' = validate_scene(request.scene, request.target_version)
    /\ pc' = "Validated"
    /\ http' = HttpOk
    /\ UNCHANGED <<request, writer, app_settings, other, doc, locals, response>>

\* ------------------------------------------------------------------------
\* A second invocation in the same process
\* ------------------------------------------------------------------------
\* What the export endpoint answers: the HTTP outcome and the response.
Answer(out) ==
    IF out.r = "raise" THEN [http |-> Caught(out), response |-> Unbound]
    ELSE [http |-> HttpOk, response |-> out.v]

export_endpoint(req, w, settings) ==
    IF ~settings.feature_flag_enabled
    THEN [http |-> HTTPException(503, "FEATURE_DISABLED"), response |-> Unbound]
    ELSE IF Len(req.scene.entities) > settings.max_entities_per_request
    THEN [http |-> HTTPException(413, "ENTITY_LIMIT_EXCEEDED"), response |-> Unbound]
    ELSE Answer(export_scene(req, w))

validate_endpoint(req) ==
    [http |-> HttpOk, response |-> validate_scene(req.scene, req.target_version)]

\* The second invocation before it runs.
Waiting(kind, req) ==
    [kind |-> kind, request |-> req, outcome |-> [http |-> Pending, response |-> Unbound]]

\* No second invocation.
NoOther == Waiting("none", Unbound)

\* The positions at which the event loop can run another task: outside the
\* service call, which has no await in it.
SuspensionPoints == {"idle", "Finalized", "raised", "rejected", "Validated"}

\* Mutant: the loop yields after an entity and the services share one
\* document, so that the second export draws into it.
OtherExportInLoop ==
    /\ other.kind = "export"
    /\ other.outcome.http = Pending
    /\ pc = "Converting"
    /\ other' = [other EXCEPT !.outcome = export_endpoint(other.request, writer, app_settings)]
    /\ doc' = IF export_scene(other.request, writer).r = "ok"
              THEN [doc EXCEPT !.msp = @ \o export_scene(other.request, writer).v.data.msp]
              ELSE doc
    /\ UNCHANGED <<request, writer, app_settings, pc, locals, response, validation, http>>

\* The second invocation is an export: it runs from its first line to its
\* last while the first is at a suspension point.
OtherExport ==
    /\ other.kind = "export"
    /\ other.outcome.http = Pending
    /\ pc \in SuspensionPoints
    /\ other' = [other EXCEPT !.outcome = export_endpoint(other.request, writer, app_settings)]
    /\ UNCHANGED <<request, writer, app_settings, pc, doc, locals, response, validation, http>>

\* The second invocation is a validation.
OtherValidate ==
    /\ other.kind = "validate"
    /\ other.outcome.http = Pending
    /\ pc \in SuspensionPoints
    /\ other' = [other EXCEPT !.outcome = validate_endpoint(other.request)]
    /\ UNCHANGED <<request, writer, app_settings, pc, doc, locals, response, validation, http>>

Next ==
    \/ CheckFeatureFlag
    \/ CheckEntityCount
    \/ CreateDocument
    \/ SetHeaderVariables
    \/ CreateLayers
    \/ FilterEntities
    \/ ExportEntity
    \/ Finalize
    \/ ValidateScene

\* ------------------------------------------------------------------------
\* Inputs of the model
\* ------------------------------------------------------------------------
NoExtra == [k \in {} |-> Null]
Fields1(k1, v1) == [k \in {k1} |-> v1]
Fields2(k1, v1, k2, v2) == [k \in {k1, k2} |-> IF k = k1 THEN v1 ELSE v2]
Fields3(k1, v1, k2, v2, k3, v3) ==
    [k \in {k1, k2, k3} |-> IF k = k1 THEN v1 ELSE IF k = k2 THEN v2 ELSE v3]
Fields4(k1, v1, k2, v2, k3, v3, k4, v4) ==
    [k \in {k1, k2, k3, k4} |->
        IF k = k1 THEN v1 ELSE IF k = k2 THEN v2 ELSE IF k = k3 THEN v3 ELSE v4]

\* All sequences over S of length at most n.
SeqsUpTo(S, n) == UNION {[1..k -> S] : k \in 0..n}

\* A name the writer refuses as a layer name.
BadLayerName == "a*b"

\* Entity kinds with their geometry, one per case of the converter.
Shape(type, layer, extra) == [type |-> type, layer |-> layer, extra |-> extra]

Shapes ==
    { Shape("line", "0", Fields2("start", XY(0, 0), "end", XY(10, 0))),
      Shape("line", "0", Fields2("startPoint", List(<<Num(0), Str("1.5")>>),
                                 "p2", Dict(Fields2("X", Num(10), "Y", Num(20))))),
      Shape("line", "0", Fields1("start", XY(0, 0))),
      Shape("line", "0", Fields2("start", Dict(Fields2("x", Str("abc"), "y", Num(0))),
                                 "end", XY(10, 0))),
      Shape("line", "0", Fields3("start", Dict(Fields2("x", Str("abc"), "y", Num(0))),
                                 "startPoint", List(<<Num(0), Num(0)>>),
                                 "end", XY(10, 0))),
      Shape("line", "0", Fields3("start", Dict(Fields1("x", Num(50))),
                                 "p1", XY(20, 20), "end", Str("10,0"))),
      Shape("lwpolyline", "0", Fields2("points", List(<<Str("0,0"), List(<<Num(10)>>)>>),
                                       "vertices", List(<<XY(0, 0), Str("x"), XY(10, 0)>>))),
      Shape("line", BadLayerName, Fields2("start", XY(0, 0), "end", XY(10, 0))),
      Shape("circle", "0", Fields2("center", XY(0, 0), "radius", Num(10))),
      Shape("circle", "0", Fields2("center", XY(0, 0), "radius", Num(0))),
      Shape("arc", "0", Fields4("center", XY(0, 0), "radius", Num(10),
                                "startAngle", Num(0), "endAngle", Num(900))),
      Shape("arc", "0", Fields3("center", XY(0, 0), "radius", Num(10),
                                "startAngle", Num(0))),
      Shape("text", "0", Fields2("insert", XY(0, 0), "text", Str("hi"))),
      Shape("text", "0", Fields2("insert", XY(0, 0), "text", Str(""))),
      Shape("point", "0", Fields1("location", XY(10, 10))),
      Shape("point", "0", NoExtra),
      Shape("rectangle", "0", Fields2("points", List(<<XY(0, 0), XY(10, 0), XY(10, 10), XY(0, 10)>>),
                                      "closed", Bool(FALSE))),
      Shape("lwpolyline", "0", Fields1("points", List(<<XY(0, 0)>>))),
      Shape("polyline", "0", Fields1("points", List(<<XY(0, 0), XY(10, 0)>>))),
      Shape("spline", "0", NoExtra),
      Shape("angle-measurement", "0", NoExtra),
      Shape("foo", "0", NoExtra) }

\* Entity ids by position, for the scenes whose ids are all different.
Ids == <<"e1", "e2", "e3", "e4">>

DefaultLayerConfig == DxfLayerConfig(TRUE, FALSE, None, NoExtra, "0")

Settings(version, layers) ==
    DxfExportSettings(version, "millimeters", "utf-8", layers, TRUE,
                      "Nestor DXF Viewer", NoExtra)

Request(scene, settings, entity_ids, layer_names) ==
    [scene |-> scene, settings |-> settings, entity_ids |-> entity_ids,
     layer_names |-> layer_names, target_version |-> settings.version]

DefaultWriter == Writer({BadLayerName}, {}, {}, FALSE)

\* The shapes that also appear together in one scene.
CoreShapes ==
    {sh \in Shapes :
        \/ sh.type \in {"spline", "foo"}
        \/ sh.type = "line" /\ DOMAIN sh.extra \in {{"start", "end"}, {"start"}}}

ShapeScene(shapes) ==
    SceneModel([k \in 1..Len(shapes) |->
                    SceneEntity(Ids[k], shapes[k].type, shapes[k].layer, None, TRUE,
                                shapes[k].extra)],
               <<>>, NoExtra)

\* Scenes that vary the entity kinds and their geometry: every shape alone,
\* the core shapes in every combination.
ShapeRequests ==
    { Request(ShapeScene(shapes), Settings(version, DefaultLayerConfig), NoList, NoList) :
        shapes \in SeqsUpTo(CoreShapes, MaxEntities) \cup {<<sh>> : sh \in Shapes},
        version \in {"AC1009", "AC1015"} }

LineGeometry == Fields2("start", XY(0, 0), "end", XY(10, 0))

\* Scenes that vary what the filter reads: ids, layers, visibility.
FilterEntitySet ==
    { SceneEntity("a", "line", "L1", None, TRUE, LineGeometry),
      SceneEntity("b", "line", "L2", None, TRUE, LineGeometry),
      SceneEntity("a", "line", "L2", None, FALSE, LineGeometry),
      SceneEntity("b", "foo", "L1", None, FALSE, NoExtra),
      SceneEntity("c", "spline", "L1", None, TRUE, NoExtra) }

FilterRequests ==
    { Request(SceneModel(entities, <<>>, NoExtra),
              Settings("AC1015", DxfLayerConfig(visible_only, FALSE, None, NoExtra, "0")),
              entity_ids, layer_names) :
        entities \in SeqsUpTo(FilterEntitySet, MaxEntities),
        visible_only \in BOOLEAN,
        entity_ids \in {NoList, SomeList(<<>>), SomeList(<<"a">>), SomeList(<<"b", "z">>)},
        layer_names \in {NoList, SomeList(<<>>), SomeList(<<"L2", "X">>)} }

\* Scenes that vary what layer routing reads.
LayerMappings ==
    { NoExtra, Fields1("A", "M"), Fields1("A", ""), Fields2("", "M", "B", "A") }

LayerEntitySet ==
    { SceneEntity("a", "line", layer, None, TRUE, LineGeometry) : layer \in {"", "A", "B"} }

SceneLayerLists ==
    { <<>>,
      <<SceneLayer("A", "#ff0000", TRUE, FALSE), SceneLayer("B", None, TRUE, TRUE)>>,
      <<SceneLayer("A", None, FALSE, FALSE), SceneLayer("0", None, TRUE, FALSE)>>,
      <<SceneLayer(BadLayerName, None, TRUE, FALSE), SceneLayer("0", "#000000", TRUE, TRUE)>> }

\* Layer routing: the entities' layers against the routing configuration.
RoutingRequests ==
    { Request(SceneModel(entities, <<>>, NoExtra),
              Settings("AC1015", DxfLayerConfig(FALSE, FALSE, flatten_to_layer,
                                                layer_mapping, default_layer)),
              NoList, NoList) :
        entities \in SeqsUpTo(LayerEntitySet, MaxEntities),
        flatten_to_layer \in {None, "", "F"},
        layer_mapping \in LayerMappings,
        default_layer \in {"0", "D"} }

\* Layer creation: the scene's layers against the routing configuration.
LayerRequests ==
    { Request(SceneModel(<<SceneEntity("a", "line", "A", None, TRUE, LineGeometry)>>,
                         layers, NoExtra),
              Settings("AC1015", DxfLayerConfig(visible_only, include_locked,
                                                flatten_to_layer, layer_mapping, "0")),
              NoList, NoList) :
        layers \in SceneLayerLists,
        visible_only \in BOOLEAN,
        include_locked \in BOOLEAN,
        flatten_to_layer \in {None, "", "F", BadLayerName},
        layer_mapping \in LayerMappings }

\* A locked black layer, for a writer that takes black as a layer color and
\* one that refuses it.
BlackLayerRequests ==
    { Request(SceneModel(<<SceneEntity("a", "line", "K", None, TRUE, LineGeometry)>>,
                         <<SceneLayer("K", "#000000", TRUE, TRUE)>>, NoExtra),
              Settings("AC1015", DxfLayerConfig(TRUE, TRUE, None, NoExtra, "0")),
              NoList, NoList) }

BlackLayerWriters == { DefaultWriter, RefusingColors(DefaultWriter, {0}) }

\* Requests that meet a writer that refuses a header key or fails to write.
FaultRequests ==
    { Request(SceneModel(<<SceneEntity("a", "line", "0", "#ff0000", TRUE, LineGeometry)>>,
                         <<>>, Fields1("name", Str(<<"M", "y", " ", "D", "!">>))),
              DxfExportSettings("AC1015", "meters", "ascii", DefaultLayerConfig,
                                include_metadata, "Nestor DXF Viewer", header_variables),
              NoList, NoList) :
        include_metadata \in BOOLEAN,
        header_variables \in {NoExtra, Fields1("$ACADVER", 1), Fields2("$ACADVER", 1, "$BAD", 2),
                              Fields1("$UNKNOWN", 3)} }

FaultWriters ==
    { Writer({BadLayerName}, {"$BAD"}, fatal_keys, write_fails) :
        fatal_keys \in {{}, {"$UNKNOWN"}}, write_fails \in BOOLEAN }

\* One entity of a mapped, an unbuilt and two unmapped kinds at every version.
VersionRequests ==
    { Request(SceneModel(<<SceneEntity("a", type, "0", None, TRUE, LineGeometry)>>,
                         <<>>, NoExtra),
              Settings(version, DefaultLayerConfig), NoList, NoList) :
        type \in {"line", "spline", "angle-measurement", "foo"}, version \in Versions }

TwoPoints == List(<<XY(0, 0), XY(10, 0)>>)

\* Polylines and rectangles with the closed flag true, false, not a boolean
\* and absent, under both of its names.
PolylineShapes ==
    { Shape("lwpolyline", "0", Fields2("points", TwoPoints, "closed", Bool(TRUE))),
      Shape("lwpolyline", "0", Fields3("vertices", TwoPoints, "closed", Str("yes"),
                                       "isClosed", Bool(TRUE))),
      Shape("lwpolyline", "0", Fields3("points", TwoPoints, "closed", Bool(FALSE),
                                       "isClosed", Bool(TRUE))),
      Shape("lwpolyline", "0", Fields2("points", TwoPoints, "closed", Num(10))),
      Shape("lwpolyline", "0", Fields1("points", TwoPoints)),
      Shape("rect", "0", Fields1("points", TwoPoints)),
      Shape("rectangle", "0", Fields2("polygon", TwoPoints, "closed", Str("no"))),
      Shape("rectangle", "0", Fields2("points", TwoPoints, "isClosed", Bool(FALSE))),
      Shape("polyline", "0", Fields2("points", TwoPoints, "closed", Bool(TRUE))) }

PolylineRequests ==
    { Request(ShapeScene(<<sh>>), Settings(version, DefaultLayerConfig), NoList, NoList) :
        sh \in PolylineShapes, version \in {"AC1009", "AC1015", "AC1032"} }

\* One text entity, plain or Greek, under every text encoding.
EncodingRequests ==
    { Request(SceneModel(<<SceneEntity("a", "text", "0", None, TRUE,
                                       Fields2("insert", XY(0, 0), "text", Str(text)))>>,
                         <<>>, NoExtra),
              DxfExportSettings("AC1015", "millimeters", encoding, DefaultLayerConfig,
                                TRUE, "Nestor DXF Viewer", NoExtra),
              NoList, NoList) :
        text \in {"hi", Omega}, encoding \in {"utf-8", "cp1252", "cp1253", "ascii"} }

\* Scene names: absent, empty, with characters inside and outside the kept
\* class, and values that are not strings.
SceneNames ==
    { Str(<<>>), Str(<<"a", "-", "_", "/", "1">>), Str(<<Omega, ".", "x">>), Num(50), Null }

NameRequests ==
    { Request(SceneModel(<<SceneEntity("a", "line", "0", None, TRUE, LineGeometry)>>,
                         <<>>, Fields1("name", name)),
              Settings(version, DefaultLayerConfig), NoList, NoList) :
        name \in SceneNames, version \in {"AC1009", "AC1032"} }

\* Entity colors: absent, empty, the eight table colors in upper, lower and
\* mixed case, and colors outside the table.
EntityColors ==
    { None, "", "#FF0000", "#ff0000", "#FFFF00", "#ffff00", "#00FF00", "#00ff00",
      "#00FFFF", "#00ffFF", "#0000FF", "#0000ff", "#FF00FF", "#Ff00fF", "#FFFFFF",
      "#ffffff", "#000000", "#abcdef", "#123456", "red" }

ColorRequests ==
    { Request(SceneModel(<<SceneEntity("a", sh.type, "0", color, TRUE, sh.extra)>>,
                         <<>>, NoExtra),
              Settings("AC1015", DefaultLayerConfig), NoList, NoList) :
        color \in EntityColors,
        sh \in {s \in Shapes : s.type = "text" \/ (s.type = "circle" /\ s.extra["radius"] = Num(10))} }

\* The application settings: the feature flag and the entity limit (scaled
\* down to the scene sizes of the model).
AppSettings(feature_flag_enabled, max_entities_per_request) ==
    [feature_flag_enabled |-> feature_flag_enabled,
     max_entities_per_request |-> max_entities_per_request]

\* Export enabled, and a limit no scene of the model exceeds.
OpenSettings == AppSettings(TRUE, MaxEntities)

\* Scenes of every size against the flag and a limit of one entity or of
\* the largest scene.
GateRequests ==
    { Request(SceneModel([k \in 1..n |->
                             SceneEntity(Ids[k], "line", "0", None, TRUE, LineGeometry)],
                         <<>>, NoExtra),
              Settings("AC1015", DefaultLayerConfig), NoList, NoList) :
        n \in 0..MaxEntities }

GateSettings ==
    { AppSettings(flag, limit) : flag \in BOOLEAN, limit \in {1, MaxEntities} }

Inputs ==
    { [request |-> r, writer |-> DefaultWriter, app_settings |-> OpenSettings] :
        r \in ShapeRequests \cup FilterRequests \cup RoutingRequests \cup LayerRequests
                \cup VersionRequests \cup PolylineRequests \cup EncodingRequests
                \cup NameRequests \cup ColorRequests }
    \cup { [request |-> r, writer |-> w, app_settings |-> OpenSettings] :
              r \in FaultRequests, w \in FaultWriters }
    \cup { [request |-> r, writer |-> DefaultWriter, app_settings |-> a] :
              r \in GateRequests, a \in GateSettings }
    \cup { [request |-> r, writer |-> w, app_settings |-> OpenSettings] :
              r \in BlackLayerRequests, w \in BlackLayerWriters }

Start(in, second) ==
    /\ request = in.request
    /\ writer = in.writer
    /\ app_settings = in.app_settings
    /\ other = second
    /\ http = Pending
    /\ pc = "idle"
    /\ doc = Unbound
    /\ entities_to_export = <<>>
    /\ entity_results = <<>>
    /\ exported_count = 0
    /\ skipped_count = 0
    /\ failed_count = 0
    /\ warnings = <<>>
    /\ emitted = <<>>
    /\ response = Unbound
    /\ validation = Unbound

Init == \E in \in Inputs : Start(in, NoOther)

Spec == Init /\ [][Next]_vars

\* Two invocations in one process: the first step by step, the second at
\* the first's suspension points.
ConcurrentInputs ==
    { [request |-> r, writer |-> w, app_settings |-> OpenSettings] :
          r \in {q \in FaultRequests : q.settings.include_metadata}, w \in FaultWriters }
    \cup { [request |-> r, writer |-> DefaultWriter, app_settings |-> a] :
              r \in GateRequests, a \in GateSettings }
    \cup { [request |-> r, writer |-> DefaultWriter, app_settings |-> OpenSettings] :
              r \in {q \in ShapeRequests : q.settings.version = "AC1009"} }

Others ==
    { Waiting(kind, r) :
        kind \in {"export", "validate"},
        r \in {q \in GateRequests : Len(q.scene.entities) = MaxEntities}
                \cup {q \in VersionRequests : q.settings.version = "AC1009"
                                               /\ q.scene.entities[1].type = "spline"} }

InitConcurrent == \E in \in ConcurrentInputs : \E second \in Others : Start(in, second)

NextConcurrent == Next \/ OtherExport \/ OtherValidate

ConcurrentSpec == InitConcurrent /\ [][NextConcurrent]_vars

\* What every step of Next changes: the stage, or the results so far.
progress == <<pc, entity_results>>

\* A call that has started runs on: a handler or a stage that can run is
\* not left waiting for ever.
FairSpec == Spec /\ WF_progress(Next)

\* ------------------------------------------------------------------------
\* Properties
\* ------------------------------------------------------------------------
\* The number of results of a list that satisfy a test.
Exported(results) == Len(SelectSeq(results, LAMBDA r : r.success))
Skipped(results) == Len(SelectSeq(results, LAMBDA r : ~r.success /\ r.dxf_type = None))
Failed(results) == Len(SelectSeq(results, LAMBDA r : ~r.success /\ r.dxf_type # None))

Returned == pc = "Finalized"

\* C1: the status of a returned export is a function of the final counters:
\* error when failed > 0 and exported = 0, partial when failed > 0 and
\* exported > 0, success otherwise; skipped entities alone, or no entity at
\* all, give success.
C1_StatusFromCounters ==
    Returned =>
        /\ (response.stats.failed_entities > 0 /\ response.stats.exported_entities = 0
                => response.status = "error")
        /\ (response.stats.failed_entities > 0 /\ response.stats.exported_entities > 0
                => response.status = "partial")
        /\ (response.stats.failed_entities = 0 => response.status = "success")
        /\ (Len(response.entity_results) = response.stats.skipped_entities
                => response.status = "success")

C1_Witness ==
    /\ Returned
    /\ response.stats.failed_entities > 0
    /\ response.stats.exported_entities > 0
    /\ response.status = "partial"

\* C2: after an export, exported_entities is the number of primitives in the
\* model space; an entity whose result has success = true added exactly one
\* primitive, an entity whose result has success = false added none.
C2_ExportedEqualsEmitted ==
    Returned =>
        /\ response.stats.exported_entities = Len(doc.msp)
        /\ \A i \in 1..Len(response.entity_results) :
                Len(emitted[i]) = IF response.entity_results[i].success THEN 1 ELSE 0

\* The required geometry of a kind that has a builder is not all resolvable.
Unresolved(entity, dxf_type) ==
    CASE dxf_type = "LINE" ->
            \/ _get_point(entity, <<"start", "startPoint", "p1">>).r # "ok"
            \/ _get_point(entity, <<"end", "endPoint", "p2">>).r # "ok"
      [] dxf_type = "LWPOLYLINE" ->
            \/ _get_points(entity, <<"points", "vertices", "polygon">>).r # "ok"
            \/ Len(_get_points(entity, <<"points", "vertices", "polygon">>).v) < 2
      [] dxf_type = "CIRCLE" ->
            \/ _get_point(entity, <<"center", "centerPoint">>).r # "ok"
            \/ _get_float(entity, <<"radius", "r">>).r # "ok"
      [] dxf_type = "ARC" ->
            \/ _get_point(entity, <<"center", "centerPoint">>).r # "ok"
            \/ _get_float(entity, <<"radius", "r">>).r # "ok"
            \/ _get_float(entity, <<"startAngle", "start_angle">>).r # "ok"
            \/ _get_float(entity, <<"endAngle", "end_angle">>).r # "ok"
      [] dxf_type = "TEXT" ->
            \/ _get_point(entity, <<"insert", "position", "location">>).r # "ok"
            \/ _get_string(entity, <<"text", "content", "value">>).r # "ok"
      [] dxf_type = "POINT" ->
            _get_point(entity, <<"location", "position", "point">>).r # "ok"
      [] OTHER -> FALSE

\* The kind is exportable, compatible with the version and has a builder.
Buildable(entity, version) ==
    /\ entity.type \in DOMAIN ENTITY_TYPE_MAPPING
    /\ ENTITY_TYPE_MAPPING[entity.type] \in Builders
    /\ (version = "AC1009" => ENTITY_TYPE_MAPPING[entity.type] \in R12_SUPPORTED_TYPES)

\* C3: an entity of a buildable kind whose required geometry is not all
\* resolvable gets a result with success = false and an error, and counts
\* as failed.
C3_MissingGeometryFails ==
    \A i \in 1..Len(entity_results) :
        /\ Buildable(entities_to_export[i], request.settings.version)
        /\ Unresolved(entities_to_export[i], ENTITY_TYPE_MAPPING[entities_to_export[i].type])
        => /\ ~entity_results[i].success
           /\ entity_results[i].error # None
           /\ entity_results[i].dxf_type # None

\* C4: exported + skipped + failed is the number of entity results, which is
\* the number of filtered entities and at most total_entities; total_entities
\* is the length of scene.entities; every result is counted in exactly one
\* counter.
C4_CountersPartitionResults ==
    /\ exported_count + skipped_count + failed_count = Len(entity_results)
    /\ exported_count = Exported(entity_results)
    /\ skipped_count = Skipped(entity_results)
    /\ failed_count = Failed(entity_results)
    /\ Returned =>
        /\ response.stats.exported_entities + response.stats.skipped_entities
              + response.stats.failed_entities = Len(response.entity_results)
        /\ Len(response.entity_results) = Len(entities_to_export)
        /\ Len(entities_to_export) <= response.stats.total_entities
        /\ response.stats.total_entities = Len(request.scene.entities)
        /\ response.stats.exported_entities = Exported(response.entity_results)
        /\ response.stats.skipped_entities = Skipped(response.entity_results)
        /\ response.stats.failed_entities = Failed(response.entity_results)

C4_Witness ==
    /\ Returned
    /\ response.stats.skipped_entities > 0
    /\ Len(response.entity_results) < response.stats.total_entities

\* The strictly increasing maps from 1..n into 1..m.
Increasing(n, m) ==
    {f \in [1..n -> 1..m] : \A i \in 1..n : \A j \in 1..n : i < j => f[i] < f[j]}

\* C5: the entity results are one per filtered entity, in the order the
\* entities have in scene.entities, and each result carries the id of the
\* scene entity at its position.
C5_ResultsFollowSceneOrder ==
    Returned =>
        /\ Len(response.entity_results) = Len(entities_to_export)
        /\ \E f \in Increasing(Len(response.entity_results), Len(request.scene.entities)) :
              \A i \in 1..Len(response.entity_results) :
                  /\ entities_to_export[i] = request.scene.entities[f[i]]
                  /\ response.entity_results[i].entity_id = request.scene.entities[f[i]].id

C5_Witness ==
    /\ Returned
    /\ Len(request.scene.entities) = 2
    /\ Len(response.entity_results) = 1
    /\ request.scene.entities[1].id # request.scene.entities[2].id
    /\ response.entity_results[1].entity_id = request.scene.entities[2].id

AfterFilter == pc \in {"Filtered", "Converting", "Finalized"}

\* C6: whenever an entity_ids list is given, empty or not, every entity
\* considered for export has its id in the list, and when no other filter is
\* active the entities considered are exactly the scene entities whose id is
\* in the list, in scene order.
C6_IdFilterForAnyList ==
    AfterFilter /\ request.entity_ids.given =>
        /\ \A i \in 1..Len(entities_to_export) :
              entities_to_export[i].id \in Elems(request.entity_ids.items)
        /\ (~request.layer_names.given /\ ~request.settings.layers.visible_only
              => entities_to_export =
                    SelectSeq(request.scene.entities,
                              LAMBDA e : e.id \in Elems(request.entity_ids.items)))

\* The predicates of the claim: the layer list when given, visibility when
\* visible_only is set.
Passes(e) ==
    /\ (request.layer_names.given => e.layer \in Elems(request.layer_names.items))
    /\ (request.settings.layers.visible_only => e.visible)

\* C7: with no id list, the filter result is the subsequence of scene.entities of exactly the
\* entities that satisfy every active predicate: the layer is in the layer
\* list when one is given, the entity is visible when visible_only is set;
\* with visible_only false invisible entities are kept.
C7_FilterIsStableSubsequence ==
    AfterFilter /\ ~request.entity_ids.given => entities_to_export = SelectSeq(request.scene.entities, Passes)

\* The layer given to the i-th filtered entity (attribs["layer"]).
AssignedLayer(i) == CommonAttribs(entities_to_export[i], request.settings).layer

\* Every successful entity so far was given the layer, and every primitive
\* in the model space lies on it.
AllOnLayer(layer) ==
    /\ \A i \in 1..Len(entity_results) :
          entity_results[i].success => AssignedLayer(i) = layer
    /\ \A k \in 1..Len(doc.msp) : doc.msp[k].attribs.layer = layer

\* C8 (as claimed): whenever flatten_to_layer is not null, every
\* successfully exported entity is on exactly that layer.
C8_FlattenWhenNotNull ==
    AfterFilter /\ request.settings.layers.flatten_to_layer # None
        => AllOnLayer(request.settings.layers.flatten_to_layer)

\* C8: whenever flatten_to_layer is a non-empty string, every successfully
\* exported entity is given exactly that layer and every emitted primitive
\* lies on it, whatever the declared layer and the layer mapping.
C8_FlattenWhenNonEmpty ==
    AfterFilter /\ request.settings.layers.flatten_to_layer \notin {None, ""}
        => AllOnLayer(request.settings.layers.flatten_to_layer)

C8_Witness ==
    /\ Returned
    /\ request.settings.layers.flatten_to_layer = "F"
    /\ \E i \in 1..Len(emitted) :
          /\ emitted[i] # <<>>
          /\ entities_to_export[i].layer \in DOMAIN request.settings.layers.layer_mapping
          /\ emitted[i][1].attribs.layer = "F"

\* The layer the claim resolves, with no flatten target.
ClaimedLayer(entity_layer, config) ==
    IF entity_layer \in DOMAIN config.layer_mapping
    THEN config.layer_mapping[entity_layer]
    ELSE IF entity_layer # "" THEN entity_layer
    ELSE config.default_layer

\* The same, but an empty mapped name gives way to the default layer.
ResolvedLayer(entity_layer, config) ==
    IF entity_layer \in DOMAIN config.layer_mapping
    THEN IF config.layer_mapping[entity_layer] # ""
         THEN config.layer_mapping[entity_layer]
         ELSE config.default_layer
    ELSE IF entity_layer # "" THEN entity_layer
    ELSE config.default_layer

\* C9 (as claimed): with no flatten target the layer of an entity is the
\* mapped name when its declared layer is a key of layer_mapping, whatever
\* the mapped value; otherwise the declared layer when non-empty; otherwise
\* the default layer.
C9_LayerAsClaimed ==
    AfterFilter /\ request.settings.layers.flatten_to_layer \in {None, ""} =>
        \A i \in 1..Len(emitted) :
            emitted[i] # <<>> =>
                emitted[i][1].attribs.layer =
                    ClaimedLayer(entities_to_export[i].layer, request.settings.layers)

\* C9: with no flatten target (null or empty) the layer of an entity is the
\* mapped name when its declared layer is a key of layer_mapping and the
\* mapped name is non-empty, the default layer when the mapped name is
\* empty; otherwise the declared layer when non-empty; otherwise the default
\* layer.
C9_LayerResolution ==
    AfterFilter /\ request.settings.layers.flatten_to_layer \in {None, ""} =>
        \A i \in 1..Len(emitted) :
            /\ AssignedLayer(i) =
                  ResolvedLayer(entities_to_export[i].layer, request.settings.layers)
            /\ emitted[i] # <<>> => emitted[i][1].attribs.layer = AssignedLayer(i)

C9_Witness ==
    /\ Returned
    /\ request.settings.layers.flatten_to_layer \in {None, ""}
    /\ request.settings.layers.default_layer = "D"
    /\ \E i \in 1..Len(emitted) : \E j \in 1..Len(emitted) :
          /\ emitted[i] # <<>>
          /\ emitted[j] # <<>>
          /\ entities_to_export[i].layer = "A"
          /\ emitted[i][1].attribs.layer = "M"
          /\ entities_to_export[j].layer = ""
          /\ emitted[j][1].attribs.layer = "D"

\* The registry has no primitive kind for the entity kind.
Unmapped(type) ==
    type \notin DOMAIN ENTITY_TYPE_MAPPING \/ ENTITY_TYPE_MAPPING[type] = None

\* C10: an entity whose kind the registry does not map, at every version:
\* export gives a result with success = false, no primitive kind and at
\* least one warning, counted as skipped and never as failed; validation
\* gives exportable = false with exactly one issue, a WARNING with code
\* NOT_EXPORTABLE.
C10_UnmappedKind ==
    /\ \A i \in 1..Len(entity_results) :
          Unmapped(entities_to_export[i].type) =>
              /\ ~entity_results[i].success
              /\ entity_results[i].dxf_type = None
              /\ Len(entity_results[i].warnings) >= 1
    /\ skipped_count =
          Len(SelectSeq(SubSeq(entities_to_export, 1, Len(entity_results)),
                        LAMBDA e : Unmapped(e.type)))
    /\ failed_count =
          Len(SelectSeq(entity_results,
                        LAMBDA r : ~r.success /\ r.dxf_type # None))
    /\ pc = "Validated" =>
          \A k \in 1..Len(request.scene.entities) :
              Unmapped(request.scene.entities[k].type) =>
                  /\ ~validation.entity_results[k].exportable
                  /\ Len(validation.entity_results[k].issues) = 1
                  /\ validation.entity_results[k].issues[1].severity = "warning"
                  /\ validation.entity_results[k].issues[1].code = "NOT_EXPORTABLE"

C10_Witness ==
    /\ Returned
    /\ request.settings.version = "AC1009"
    /\ \E i \in 1..Len(entity_results) :
          /\ entities_to_export[i].type = "angle-measurement"
          /\ response.stats.skipped_entities >= 1

\* The primitive kinds the maximum-compatibility version supports, as the
\* specification lists them.
MaxCompatKinds == {"LINE", "POLYLINE", "CIRCLE", "ARC", "TEXT", "POINT"}

\* The primitive kind the registry resolves for an entity kind, None when
\* there is none.
KindOf(type) ==
    IF type \in DOMAIN ENTITY_TYPE_MAPPING THEN ENTITY_TYPE_MAPPING[type] ELSE None

\* The entity resolves to a primitive kind outside the maximum-compatibility
\* set.
Denied(type) == KindOf(type) # None /\ KindOf(type) \notin MaxCompatKinds

\* C11: at version AC1009, an entity whose primitive kind is not one of LINE,
\* POLYLINE, CIRCLE, ARC, TEXT, POINT: export gives success = false with the
\* primitive kind and an error set, counts it as failed and emits no
\* primitive; validation gives exportable = false with exactly one issue, an
\* ERROR with code VERSION_INCOMPATIBLE, and the scene is invalid.
C11_MaxCompatDenies ==
    /\ request.settings.version = "AC1009" =>
          /\ \A i \in 1..Len(entity_results) :
                Denied(entities_to_export[i].type) =>
                    /\ ~entity_results[i].success
                    /\ entity_results[i].dxf_type = KindOf(entities_to_export[i].type)
                    /\ entity_results[i].error # None
                    /\ emitted[i] = <<>>
          /\ failed_count >=
                Len(SelectSeq(SubSeq(entities_to_export, 1, Len(entity_results)),
                              LAMBDA e : Denied(e.type)))
          /\ exported_count + skipped_count <=
                Len(SelectSeq(SubSeq(entities_to_export, 1, Len(entity_results)),
                              LAMBDA e : ~Denied(e.type)))
    /\ pc = "Validated" /\ request.target_version = "AC1009" =>
          /\ \A k \in 1..Len(request.scene.entities) :
                Denied(request.scene.entities[k].type) =>
                    /\ ~validation.entity_results[k].exportable
                    /\ Len(validation.entity_results[k].issues) = 1
                    /\ validation.entity_results[k].issues[1].severity = "error"
                    /\ validation.entity_results[k].issues[1].code = "VERSION_INCOMPATIBLE"
          /\ (\E k \in 1..Len(request.scene.entities) :
                  Denied(request.scene.entities[k].type)) => ~validation.valid

C11_Witness ==
    /\ Returned
    /\ request.settings.version = "AC1009"
    /\ \E i \in 1..Len(entity_results) :
          /\ entities_to_export[i].type = "rectangle"
          /\ entity_results[i].dxf_type = "LWPOLYLINE"
          /\ response.stats.failed_entities >= 1

\* C12: at every version other than AC1009 and for every entity kind the
\* registry maps to a primitive kind, validation reports exportable = true
\* with no issues and export produces no version-incompatibility failure.
C12_OtherVersionsNeverDeny ==
    /\ request.settings.version # "AC1009" =>
          \A i \in 1..Len(entity_results) :
              KindOf(entities_to_export[i].type) # None =>
                  /\ entity_results[i].error # "R12 version does not support this entity type"
                  /\ \A w \in 1..Len(entity_results[i].warnings) :
                        entity_results[i].warnings[w].text # "Entity type not supported in R12"
    /\ pc = "Validated" /\ request.target_version # "AC1009" =>
          \A k \in 1..Len(request.scene.entities) :
              KindOf(request.scene.entities[k].type) # None =>
                  /\ validation.entity_results[k].exportable
                  /\ validation.entity_results[k].issues = <<>>

C12_Witness ==
    /\ pc = "Validated"
    /\ request.target_version = "AC1032"
    /\ \E k \in 1..Len(request.scene.entities) :
          /\ request.scene.entities[k].type = "spline"
          /\ validation.entity_results[k].exportable

\* All issues of a list of validation results, in order.
RECURSIVE AllIssues(_)
AllIssues(results) ==
    IF results = <<>> THEN <<>>
    ELSE Head(results).issues \o AllIssues(Tail(results))

\* The number of issues of one severity.
OfSeverity(results, severity) ==
    Len(SelectSeq(AllIssues(results), LAMBDA i : i.severity = severity))

\* C13: a validation is valid iff no entity result holds an ERROR issue; the
\* issue summary counts the issues of each severity over all results;
\* exportable + non-exportable = total = number of results = length of
\* scene.entities, one result per entity in scene order; warnings alone never
\* make the scene invalid.
C13_ValidationAggregates ==
    pc = "Validated" =>
        /\ validation.valid <=> OfSeverity(validation.entity_results, "error") = 0
        /\ validation.issue_summary.errors = OfSeverity(validation.entity_results, "error")
        /\ validation.issue_summary.warnings = OfSeverity(validation.entity_results, "warning")
        /\ validation.issue_summary.info = OfSeverity(validation.entity_results, "info")
        /\ validation.exportable_entities + validation.non_exportable_entities
              = validation.total_entities
        /\ validation.total_entities = Len(validation.entity_results)
        /\ validation.total_entities = Len(request.scene.entities)
        /\ validation.exportable_entities =
              Cardinality({k \in 1..Len(validation.entity_results) :
                              validation.entity_results[k].exportable})
        /\ \A k \in 1..Len(request.scene.entities) :
              /\ validation.entity_results[k].entity_id = request.scene.entities[k].id
              /\ validation.entity_results[k].entity_type = request.scene.entities[k].type

C13_Witness ==
    /\ pc = "Validated"
    /\ validation.valid
    /\ validation.issue_summary.warnings >= 1
    /\ validation.non_exportable_entities >= 1
    /\ validation.total_entities >= 2

\* The first boolean-typed value among closed, isClosed; false when there is
\* none.
FirstBoolean(extra) ==
    IF "closed" \in DOMAIN extra /\ extra["closed"].t = "bool" THEN extra["closed"].b
    ELSE IF "isClosed" \in DOMAIN extra /\ extra["isClosed"].t = "bool"
    THEN extra["isClosed"].b
    ELSE FALSE

\* C14: every polyline primitive emitted for a rectangle or rect entity is
\* closed, whatever its closed / isClosed field; for any other entity the
\* closed flag of the emitted polyline is the first boolean-typed value among
\* closed, isClosed, and false when there is none.
C14_RectanglesAreClosed ==
    \A i \in 1..Len(entity_results) :
        \A k \in 1..Len(emitted[i]) :
            emitted[i][k].kind = "LWPOLYLINE" =>
                IF entities_to_export[i].type \in {"rectangle", "rect"}
                THEN emitted[i][k].close
                ELSE emitted[i][k].close = FirstBoolean(entities_to_export[i].extra)

C14_Witness ==
    \E i \in 1..Len(entity_results) :
        /\ entities_to_export[i].type = "rectangle"
        /\ "isClosed" \in DOMAIN entities_to_export[i].extra
        /\ ~entities_to_export[i].extra["isClosed"].b
        /\ Len(emitted[i]) = 1
        /\ emitted[i][1].close

\* C15: at every version, a polyline entity that passes the filter and has at
\* least two resolvable points is exported: its result has success = true and
\* one polyline primitive is emitted for it.
C15_PolylineIsExported ==
    \A i \in 1..Len(entity_results) :
        /\ entities_to_export[i].type = "polyline"
        /\ _get_points(entities_to_export[i], <<"points", "vertices", "polygon">>).r = "ok"
        /\ Len(_get_points(entities_to_export[i], <<"points", "vertices", "polygon">>).v) >= 2
        => /\ entity_results[i].success
           /\ Len(emitted[i]) = 1

\* What the builder of entity i does on an empty model space: Ok or Raise.
BuilderOutcome(i) ==
    Dispatch(KindOf(entities_to_export[i].type), <<>>, entities_to_export[i],
             CommonAttribs(entities_to_export[i], request.settings), writer)

\* Entity i reaches its builder.
ReachesBuilder(i) ==
    /\ KindOf(entities_to_export[i].type) \in Builders
    /\ (request.settings.version = "AC1009"
            => KindOf(entities_to_export[i].type) \in R12_SUPPORTED_TYPES)

\* C16: when the writer or the geometry parsing raises while entity k is
\* built, entity k gets a result with success = false, its primitive kind and
\* the exception's message as error, it is counted as failed, nothing is
\* emitted for it, and the loop goes on: the export never stops inside the
\* loop, so every later filtered entity gets its own result.
C16_BuilderFailureIsContained ==
    /\ \A i \in 1..Len(entity_results) :
          ReachesBuilder(i) /\ BuilderOutcome(i).r = "raise" =>
              /\ ~entity_results[i].success
              /\ entity_results[i].dxf_type = KindOf(entities_to_export[i].type)
              /\ entity_results[i].error = BuilderOutcome(i).msg
              /\ emitted[i] = <<>>
    /\ failed_count >=
          Cardinality({i \in 1..Len(entity_results) :
                          ReachesBuilder(i) /\ BuilderOutcome(i).r = "raise"})
    /\ exported_count + skipped_count <=
          Cardinality({i \in 1..Len(entity_results) :
                          ~(ReachesBuilder(i) /\ BuilderOutcome(i).r = "raise")})
    /\ (pc \in {"raised", "Finalized"} /\ entities_to_export # <<>>
            => Len(entity_results) = Len(entities_to_export))

C16_Witness ==
    /\ Returned
    /\ Len(entity_results) = 2
    /\ ReachesBuilder(1)
    /\ BuilderOutcome(1).r = "raise"
    /\ entity_results[1].error = "could not convert string to float"
    /\ entity_results[2].success
    /\ Len(emitted[2]) = 1

\* The header and layer setup of the export ran to its end: the unit
\* variable is set and the flatten-target-or-default layer is in the table.
SetupDone ==
    /\ "$INSUNITS" \in DOMAIN doc.header
    /\ PyOr(request.settings.layers.flatten_to_layer,
            request.settings.layers.default_layer) \in DOMAIN doc.layers

\* C17: no failure of the writer during header or layer setup aborts the
\* export: an export that was aborted had completed its setup.
C17_SetupNeverAborts ==
    pc = "raised" => SetupDone

\* C18: when serialization or text encoding fails in the finalize step, the
\* request fails as an export processing error, HTTP 500 with code
\* EXPORT_ERROR: no export response is returned, and the failure is neither a
\* per-entity failure nor an HTTP 400 VALIDATION_ERROR rejection.
C18_WriteFailureIsExportError ==
    pc = "raised" /\ SetupDone =>
        /\ http = HTTPException(500, "EXPORT_ERROR")
        /\ \A i \in 1..Len(entity_results) :
              entity_results[i].error \notin {"write failed", "codec can't encode character"}

\* C19: while the feature flag is disabled, an export request is rejected
\* with HTTP 503 and code FEATURE_DISABLED before the engine runs (no
\* document, no converted entity, no response); a validation request is
\* served with HTTP 200 whatever the flag.
C19_FlagGatesExportOnly ==
    /\ ~app_settings.feature_flag_enabled =>
          /\ pc \in {"idle", "rejected", "Validated"}
          /\ entities_to_export = <<>>
          /\ entity_results = <<>>
          /\ emitted = <<>>
          /\ (pc = "rejected" => http = HTTPException(503, "FEATURE_DISABLED"))
    /\ pc = "Validated" =>
          /\ http = HttpOk
          /\ validation.total_entities = Len(request.scene.entities)

C19_Witness ==
    /\ ~app_settings.feature_flag_enabled
    /\ pc = "rejected"
    /\ http.status_code = 503
    /\ request.scene.entities # <<>>

\* C20: a scene with more entities than max_entities_per_request never
\* reaches the engine through either endpoint: no document is created and no
\* entity is converted or validated, and the export endpoint rejects it.
C20_OversizedNeverReachesEngine ==
    Len(request.scene.entities) > app_settings.max_entities_per_request =>
        /\ pc \in {"idle", "rejected"}
        /\ entity_results = <<>>
        /\ http.status_code \in {0, 413, 503}

\* ---------------------------------------------------------------------
\* The characters a file name base keeps.
KeptChars == Alnum \cup {"-", "_"}

SceneName == PyGet(request.scene.metadata, "name", Null)

NameIsString == "name" \in DOMAIN request.scene.metadata /\ SceneName.t = "str"

\* C21: the file name of a returned export is <base>_<version tag>.dxf; the
\* base is the scene's metadata name with every character that is neither
\* alphanumeric nor '-' nor '_' replaced by '_', same length and positions,
\* and is 'export' when the name is absent or not a string.
C21_FilenameIsSanitisedName ==
    Returned =>
        /\ response.filename.sep = "_"
        /\ response.filename.ext = ".dxf"
        /\ response.filename.version_suffix = request.settings.version
        /\ IF NameIsString
           THEN /\ Len(response.filename.base) = Len(SceneName.s)
                /\ \A k \in 1..Len(SceneName.s) :
                      response.filename.base[k] =
                          IF SceneName.s[k] \in KeptChars THEN SceneName.s[k] ELSE "_"
           ELSE response.filename.base = <<"e", "x", "p", "o", "r", "t">>

C21_Witness ==
    /\ Returned
    /\ NameIsString
    /\ response.filename.base = <<"a", "-", "_", "_", "1">>
    /\ response.filename.version_suffix = "AC1032"

\* ---------------------------------------------------------------------
\* The color index the palette gives a color, whatever its letter case.
ClaimedAci(color) ==
    CASE color \in {"#FF0000", "#ff0000"} -> 1
      [] color \in {"#FFFF00", "#ffff00"} -> 2
      [] color \in {"#00FF00", "#00ff00"} -> 3
      [] color \in {"#00FFFF", "#00ffFF"} -> 4
      [] color \in {"#0000FF", "#0000ff"} -> 5
      [] color \in {"#FF00FF", "#Ff00fF"} -> 6
      [] color \in {"#FFFFFF", "#ffffff"} -> 7
      [] color = "#000000" -> 0
      [] OTHER -> 7

HasColor(i) == entities_to_export[i].color \notin {None, ""}

\* C24: the color mapping is total and case-insensitive (#FF0000 -> 1,
\* #FFFF00 -> 2, #00FF00 -> 3, #00FFFF -> 4, #0000FF -> 5, #FF00FF -> 6,
\* #FFFFFF -> 7, #000000 -> 0, anything else -> 7), and an emitted primitive
\* carries a color attribute exactly when its entity has a non-empty color,
\* its value being the mapping of that color.
C24_ColorFollowsPalette ==
    \A i \in 1..Len(entity_results) :
        \A k \in 1..Len(emitted[i]) :
            /\ ("color" \in DOMAIN emitted[i][k].attribs) <=> HasColor(i)
            /\ HasColor(i) =>
                  emitted[i][k].attribs.color = ClaimedAci(entities_to_export[i].color)

C24_Witness ==
    /\ Len(entity_results) = 1
    /\ Len(emitted[1]) = 1
    /\ entities_to_export[1].color = "#Ff00fF"
    /\ emitted[1][1].attribs.color = 6

\* ---------------------------------------------------------------------
\* The alias lists the builders read points and point lists with.
PointAliases ==
    { <<"start", "startPoint", "p1">>, <<"end", "endPoint", "p2">>,
      <<"center", "centerPoint">>, <<"insert", "position", "location">>,
      <<"location", "position", "point">> }

PointListAliases == { <<"points", "vertices", "polygon">> }

\* C29: point and point-list extraction never raise, also for a coordinate
\* that does not convert to a floating-point number: the extraction goes on
\* to the next alias or returns absent.
C29_PointExtractionNeverRaises ==
    \A i \in 1..Len(entity_results) :
        /\ \A keys \in PointAliases : _get_point(entities_to_export[i], keys).r # "raise"
        /\ \A keys \in PointListAliases : _get_points(entities_to_export[i], keys).r # "raise"

\* ---------------------------------------------------------------------
\* A field value read as one of the five shapes: Ok(parsed value) when it
\* parses, anything else when it does not.
PointsOf(val) == IF val.t = "list" THEN PointItems(val.items, 1) ELSE Absent

ParsedAs(shape, val) ==
    CASE shape = "point" -> PointOf(val)
      [] shape = "points" ->
            IF PointsOf(val).r = "ok" /\ PointsOf(val).v = <<>> THEN Absent ELSE PointsOf(val)
      [] shape = "float" -> IF val.t \in {"num", "bool"} THEN Float(val) ELSE Absent
      [] shape = "string" -> IF val.t = "str" THEN Ok(val.s) ELSE Absent
      [] shape = "bool" -> IF val.t = "bool" THEN Ok(val.b) ELSE Absent

\* The positions of the aliases whose field exists and parses.
ParsingAliases(shape, data, keys) ==
    {j \in 1..Len(keys) : keys[j] \in DOMAIN data /\ ParsedAs(shape, data[keys[j]]).r = "ok"}

FirstOf(S) == CHOOSE j \in S : \A k \in S : j <= k

\* The parsed value of the first alias that parses, absent when none does.
FirstParsed(shape, data, keys) ==
    IF ParsingAliases(shape, data, keys) = {} THEN Absent
    ELSE ParsedAs(shape, data[keys[FirstOf(ParsingAliases(shape, data, keys))]])

FloatAliases ==
    { <<"radius", "r">>, <<"startAngle", "start_angle">>, <<"endAngle", "end_angle">>,
      <<"rotation", "angle">>, <<"height", "fontSize">> }

StringAliases == { <<"text", "content", "value">> }

BoolAliases == { <<"closed", "isClosed">> }

\* Every extraction of entity e gives the parsed value of the first alias
\* that parses.
FirstAliasWins(e) ==
    /\ \A keys \in PointAliases :
          _get_point(e, keys) = FirstParsed("point", model_dump(e), keys)
    /\ \A keys \in PointListAliases :
          _get_points(e, keys) = FirstParsed("points", model_dump(e), keys)
    /\ \A keys \in FloatAliases :
          _get_float(e, keys) = FirstParsed("float", model_dump(e), keys)
    /\ \A keys \in StringAliases :
          _get_string(e, keys) = FirstParsed("string", model_dump(e), keys)
    /\ \A keys \in BoolAliases :
          Ok(_get_bool(e, keys)) =
              IF FirstParsed("bool", model_dump(e), keys) = Absent THEN Ok(FALSE)
              ELSE FirstParsed("bool", model_dump(e), keys)

\* C28: geometry extraction is alias-order-deterministic: the result is the
\* parsed value of the first alias, in alias order, whose field exists and
\* parses into the requested shape; an earlier alias that exists but does not
\* parse does not stop the search, a later alias never overrides an earlier
\* one that parses, the result is absent exactly when no alias parses (false
\* for the boolean shape), and the field bag is not modified.
C28_FirstParsingAliasWins ==
    \A i \in 1..Len(entity_results) : FirstAliasWins(entities_to_export[i])

\* ---------------------------------------------------------------------
\* C30: after an export, the layer assigned to every successfully exported
\* entity is in the document's layer table, so that stats.layers_exported
\* accounts for every layer that carries an exported entity; also for an
\* entity whose declared layer is not among the scene's layers or was skipped
\* at layer creation.
C30_AssignedLayerInTable ==
    Returned =>
        \A i \in 1..Len(entity_results) :
            entity_results[i].success => AssignedLayer(i) \in DOMAIN doc.layers

\* ---------------------------------------------------------------------
\* The issue codes validation gives an entity at a version.
IssueCodes(v) == {v.issues[k].code : k \in 1..Len(v.issues)}

\* An export result that counts as skipped, and one that is the version
\* failure.
IsSkip(result) == ~result.success /\ result.dxf_type = None

IsVersionFailure(result) ==
    ~result.success /\ result.error = "R12 version does not support this entity type"

\* Validation v and export result of one entity at one version agree.
SameDecision(v, result) ==
    /\ ("NOT_EXPORTABLE" \in IssueCodes(v)) <=> IsSkip(result)
    /\ ("VERSION_INCOMPATIBLE" \in IssueCodes(v)) <=> IsVersionFailure(result)
    /\ ~v.exportable => ~result.success

\* C27: validation and export apply the same kind and version decision to an
\* entity: validation reports NOT_EXPORTABLE exactly when export counts the
\* entity as skipped, VERSION_INCOMPATIBLE exactly when export fails it with
\* a version error, and no entity validation marks exportable = false is
\* counted as exported at the same version.
C27_ValidationAgreesWithExport ==
    /\ \A i \in 1..Len(entity_results) :
          SameDecision(_validate_entity(entities_to_export[i], request.settings.version),
                       entity_results[i])
    /\ skipped_count =
          Cardinality({i \in 1..Len(entity_results) :
              "NOT_EXPORTABLE" \in
                  IssueCodes(_validate_entity(entities_to_export[i],
                                              request.settings.version))})
    /\ exported_count <=
          Cardinality({i \in 1..Len(entity_results) :
              _validate_entity(entities_to_export[i], request.settings.version).exportable})
    /\ pc = "Validated" =>
          \A k \in 1..Len(request.scene.entities) :
              SameDecision(validation.entity_results[k],
                           _export_entity(<<>>, request.scene.entities[k],
                                          request.settings, writer).result)

C27_Witness ==
    /\ Returned
    /\ request.settings.version = "AC1009"
    /\ \E i, j \in 1..Len(entity_results) :
          /\ IsSkip(entity_results[i])
          /\ IsVersionFailure(entity_results[j])
    /\ response.stats.skipped_entities = 1
    /\ response.stats.failed_entities = 1

\* ---------------------------------------------------------------------
\* The layer-creation pass is over.
LayersDone == pc \in {"LayersCreated", "Filtered", "Converting", "Finalized"}

LayerConfig == request.settings.layers

\* Scene layer j is not skipped: neither invisible while visible_only is
\* set nor locked while include_locked is false.
Kept(j) ==
    /\ ~(LayerConfig.visible_only /\ ~request.scene.layers[j].visible)
    /\ ~(~LayerConfig.include_locked /\ request.scene.layers[j].locked)

KeptLayers == {j \in 1..Len(request.scene.layers) : Kept(j)}

\* The name scene layer j is created under.
MappedName(j) ==
    IF request.scene.layers[j].name \in DOMAIN LayerConfig.layer_mapping
    THEN LayerConfig.layer_mapping[request.scene.layers[j].name]
    ELSE request.scene.layers[j].name

\* The layers of a new document.
InitialLayers == {"0", "Defpoints"}

\* The flatten target, or the default layer.
EnsuredLayer ==
    IF LayerConfig.flatten_to_layer \notin {None, ""}
    THEN LayerConfig.flatten_to_layer ELSE LayerConfig.default_layer

\* The writer takes the addition of scene layer j: its name is valid and
\* neither in a new document nor the name of an earlier kept layer.
Addable(j) ==
    /\ MappedName(j) \notin writer.bad_names \cup InitialLayers
    /\ \A k \in KeptLayers : k < j => MappedName(k) # MappedName(j)

\* The writer takes the color of scene layer j as a layer color.
ColorTaken(j) ==
    request.scene.layers[j].color \in {None, ""}
    \/ ClaimedAci(request.scene.layers[j].color) \notin writer.bad_colors

C23_InputsUnchanged ==
    [][ /\ request' = request
        /\ app_settings' = app_settings
        /\ pc' = "Validated" => doc' = doc /\ doc' = Unbound /\ emitted' = emitted
      ]_vars

C23_Witness ==
    /\ Returned
    /\ Len(entities_to_export) < Len(request.scene.entities)
    /\ \E i \in 1..Len(entity_results) : entity_results[i].success
    /\ request.entity_ids.given

\* ---------------------------------------------------------------------
\* The stages of an export, in order.
Stages == <<"Init", "HeaderSet", "LayersCreated", "Filtered", "Converting", "Finalized">>

StageIndex(p) == CHOOSE k \in 1..Len(Stages) : Stages[k] = p

\* A step that changes the stage goes to a later one (to the next one, the
\* conversion stage being passed over when no entity is left after the
\* filter).
StageStep ==
    pc' # pc /\ pc' \in {Stages[k] : k \in 2..Len(Stages)} =>
        /\ pc \in {Stages[k] : k \in 1..Len(Stages)}
        /\ \/ StageIndex(pc') = StageIndex(pc) + 1
           \/ pc = "Filtered" /\ pc' = "Finalized" /\ entities_to_export = <<>>

\* An entity is converted only after layers and filter, and the content is
\* serialized only after the last filtered entity.
ConvertStep ==
    /\ entity_results' # entity_results /\ entity_results' # <<>> =>
          pc \in {"Filtered", "Converting"}
    /\ pc' = "Finalized" /\ pc # "Finalized" =>
          Len(entity_results) = Len(entities_to_export)

\* C25: every export goes through the stages Init, HeaderSet, LayersCreated,
\* Filtered, Converting, Finalized in this order, each once and never
\* backward; no entity is converted before the layers are created and the
\* filter is applied; the content is serialized only after the last filtered
\* entity; and the export eventually reaches Finalized, however many
\* per-entity conversions fail.
C25_StagesInOrderToFinalized ==
    /\ [][StageStep /\ ConvertStep]_vars
    /\ (pc = "Init") ~> (pc = "Finalized")

\* ---------------------------------------------------------------------
\* What the first invocation has answered is what it answers alone.
FirstAsAlone ==
    /\ pc \in {"Finalized", "raised", "rejected"} =>
          [http |-> http, response |-> response]
              = export_endpoint(request, writer, app_settings)
    /\ pc = "Validated" =>
          [http |-> http, response |-> validation] = validate_endpoint(request)

\* What the second invocation has answered is what it answers alone.
SecondAsAlone ==
    other.outcome.http # Pending =>
        other.outcome = IF other.kind = "export"
                        THEN export_endpoint(other.request, writer, app_settings)
                        ELSE validate_endpoint(other.request)

\* A step of one invocation leaves everything of the other as it was, and
\* the second invocation runs only while the first is outside its service
\* call.
OwnStateOnly ==
    /\ other' # other =>
          /\ pc \in SuspensionPoints
          /\ UNCHANGED <<pc, doc, locals, response, validation, http, request>>
    /\ progress' # progress => other' = other

====
